---- MODULE Spec2Model ----
(***************************************************************************)
(* A model of the noise-rs composition graph: the self-consuming builder   *)
(* chains (new, with_...) that configure a node, and the evaluation        *)
(* contract NoiseFn::get.                                                  *)
(*                                                                         *)
(* One builder chain is modelled at a time: `node` is the value the chain  *)
(* currently owns, every with_ call consumes it and yields the next        *)
(* value, and get evaluates it at a point.  A panic ends the chain: the    *)
(* value is gone and only a constructor can start again.                   *)
(*                                                                         *)
(* f64 values are modelled as exact rationals <<numerator, denominator>>;   *)
(* the products of a point with a scale that needs the full mantissa are   *)
(* rounded as f64 rounds them (NaN and the infinities are not modelled);   *)
(* u32 values as                                                           *)
(* <<high 16 bits, low 16 bits>>, so that the seed generator's bit         *)
(* arithmetic is computed at its real width.                               *)
(***************************************************************************)
EXTENDS Integers, Sequences, FiniteSets

VARIABLES
    debug,  \* TRUE: a debug build (debug_assert! is compiled in)
    node,   \* the value the builder chain owns (NoNode before new / after a panic)
    given,  \* history: the seed most recently handed to with_seed (or the default)
    op,     \* history: the last operation, its layer-count argument and outcome
    out,    \* the point and the result of the last get
    calls,  \* history: the calls that built node, kept by the chains that are rebuilt
    twin,   \* a second node built from the same calls, the calls in flight, its last get
    evals   \* the get calls in flight on a shared node, one record per evaluator

vars == <<debug, node, given, op, out, calls, twin, evals>>

(***************************************************************************)
(* Bounds of the model.                                                    *)
(***************************************************************************)
MaxLayers == 3      \* the largest layer count handed to Fractal::new / with_layers
MaxRoughness == 7   \* the largest roughness handed to Turbulence::with_roughness
MaxDepth == 2       \* the deepest nesting of Clamp nodes built
MaxSize == 2        \* the largest block-size exponent handed to Checkerboard::new / with_size
MaxValues == 3      \* the longest list of layer values handed to a blender directly
MaxCalls == 3       \* the longest chain of calls that is built a second time
NumEvaluators == 2  \* the evaluators that share one node

(***************************************************************************)
(* f64 arithmetic on exact rationals <<n, d>>, d > 0, in lowest terms.     *)
(***************************************************************************)
RECURSIVE Gcd(_, _)
Gcd(a, b) == IF b = 0 THEN a ELSE Gcd(b, a % b)

IAbs(n) == IF n < 0 THEN -n ELSE n

R(n, d) ==
    LET g == Gcd(IAbs(n), IAbs(d))
        s == IF d < 0 THEN -1 ELSE 1
    IN <<(s * n) \div g, (s * d) \div g>>

Lcm(a, b) == (a \div Gcd(a, b)) * b

FAdd(a, b) ==
    LET l == Lcm(a[2], b[2])
    IN R(a[1] * (l \div a[2]) + b[1] * (l \div b[2]), l)

FNeg(a) == <<-a[1], a[2]>>

FSub(a, b) == FAdd(a, FNeg(b))

FMul(a, b) ==
    LET g1 == Gcd(IAbs(a[1]), b[2])
        g2 == Gcd(IAbs(b[1]), a[2])
    IN R((a[1] \div g1) * (b[1] \div g2), (a[2] \div g2) * (b[2] \div g1))

\* a / b for b # 0
FDiv(a, b) == FMul(a, R(b[2], b[1]))

FLt(a, b) ==
    LET l == Lcm(a[2], b[2])
    IN a[1] * (l \div a[2]) < b[1] * (l \div b[2])

FGt(a, b) == FLt(b, a)

FLe(a, b) == ~FLt(b, a)

FAbs(a) == <<IAbs(a[1]), a[2]>>

Zero == <<0, 1>>
One == <<1, 1>>

(***************************************************************************)
(* f64 values that do not fit <<n, d>>.  A product whose 53-bit mantissa   *)
(* is too large for the integers of the rationals above is carried at the  *)
(* width the code computes it: a wide value is <<s, m, e>> and stands for  *)
(* s * M * 2^e, with s = 1 or -1, M the integer whose four limbs of 14     *)
(* bits are m (least significant first) and M odd.  The product of two     *)
(* values is rounded to 53 bits, ties to even, as f64 multiplication is.   *)
(***************************************************************************)
IsWide(x) == Len(x) = 3

\* 2^k for 0 <= k <= 14
BitPow == [k \in 0..14 |-> CASE k = 0 -> 1 [] k = 1 -> 2 [] k = 2 -> 4 [] k = 3 -> 8
                             [] k = 4 -> 16 [] k = 5 -> 32 [] k = 6 -> 64
                             [] k = 7 -> 128 [] k = 8 -> 256 [] k = 9 -> 512
                             [] k = 10 -> 1024 [] k = 11 -> 2048 [] k = 12 -> 4096
                             [] k = 13 -> 8192 [] k = 14 -> 16384]

\* the base of the limbs
Limb == BitPow[14]

\* limb i (from 0) of the limbs p, 0 beyond its length
LimbAt(p, i) == IF i + 1 <= Len(p) THEN p[i + 1] ELSE 0

\* the number of bits of a limb
RECURSIVE LimbBits(_)
LimbBits(l) == IF l = 0 THEN 0 ELSE 1 + LimbBits(l \div 2)

\* the number of bits of the integer of limbs p, looking from limb i down
RECURSIVE BitLen(_, _)
BitLen(p, i) ==
    IF i < 0 THEN 0
    ELSE IF p[i + 1] # 0 THEN 14 * i + LimbBits(p[i + 1])
    ELSE BitLen(p, i - 1)

\* the number of zero bits at the low end of a limb that is not 0
RECURSIVE LimbZeros(_)
LimbZeros(l) == IF l % 2 = 1 THEN 0 ELSE 1 + LimbZeros(l \div 2)

\* the number of zero bits at the low end of the integer of limbs p (not 0)
RECURSIVE LowZeros(_, _)
LowZeros(p, i) ==
    IF p[i + 1] # 0 THEN 14 * i + LimbZeros(p[i + 1]) ELSE LowZeros(p, i + 1)

\* the four limbs of bits s, s + 1, ... of the integer of limbs p
ShiftRight(p, s) ==
    LET a == s \div 14
        r == s % 14
    IN [j \in 1..4 |->
           (LimbAt(p, a + j - 1) \div BitPow[r])
           + (LimbAt(p, a + j) % BitPow[r]) * BitPow[14 - r]]

\* bit k (from 0) of the integer of limbs p
BitAt(p, k) == (LimbAt(p, k \div 14) \div BitPow[k % 14]) % 2

\* some bit below bit k of the integer of limbs p is set
AnyBitBelow(p, k) ==
    \/ \E i \in 0..((k \div 14) - 1) : LimbAt(p, i) # 0
    \/ LimbAt(p, k \div 14) % BitPow[k % 14] # 0

\* the integer of four limbs, plus one
Increment(m) ==
    LET c1 == IF m[1] + 1 = Limb THEN 1 ELSE 0
        c2 == IF m[2] + c1 = Limb THEN 1 ELSE 0
        c3 == IF m[3] + c2 = Limb THEN 1 ELSE 0
    IN <<(m[1] + 1) % Limb, (m[2] + c1) % Limb, (m[3] + c2) % Limb, m[4] + c3>>

\* column k of the product of a and b: the sum of a's limb i times b's limb
\* k - i, from limb i up
RECURSIVE Column(_, _, _, _)
Column(a, b, k, i) ==
    IF i > 3 \/ i > k THEN 0
    ELSE (IF k - i <= 3 THEN a[i + 1] * b[k - i + 1] ELSE 0) + Column(a, b, k, i + 1)

\* the limbs from column k up, given the carry c into column k
RECURSIVE Carried(_, _, _, _)
Carried(a, b, k, c) ==
    IF k = 7 THEN <<c>>
    ELSE <<(Column(a, b, k, 0) + c) % Limb>>
         \o Carried(a, b, k + 1, (Column(a, b, k, 0) + c) \div Limb)

\* the eight limbs of the product of two integers of four limbs
MulLimbs(a, b) == Carried(a, b, 0, 0)

\* the exponent k of a power of two 2^k
RECURSIVE Log2(_)
Log2(d) == IF d = 1 THEN 0 ELSE 1 + Log2(d \div 2)

\* a rational n / 2^k as sign, limbs and exponent (limbs not yet odd)
ToWide(x) ==
    IF IsWide(x) THEN x
    ELSE LET n == IAbs(x[1])
         IN <<IF x[1] < 0 THEN -1 ELSE 1,
              <<n % Limb, (n \div Limb) % Limb, n \div (Limb * Limb), 0>>,
              -Log2(x[2])>>

\* s * odd * 2^e in its one form, odd an odd integer of four limbs: <<n, d>>
\* when odd has at most 28 bits and the exponent is within 28 of zero, a wide
\* value otherwise
Reduced(s, odd, e) ==
    IF odd[3] = 0 /\ odd[4] = 0 /\ e <= 0 /\ e >= -28
        THEN <<s * (odd[1] + odd[2] * Limb),
               BitPow[(-e) % 14] * (IF -e >= 14 THEN Limb ELSE 1)
                                 * (IF -e >= 28 THEN Limb ELSE 1)>>
    ELSE IF e > 0 /\ BitLen(odd, 3) + e <= 28
        THEN <<s * (odd[1] + odd[2] * Limb) * BitPow[e % 14]
                 * (IF e >= 14 THEN Limb ELSE 1), 1>>
    ELSE <<s, odd, e>>

\* s * M * 2^e in its one form, M the integer of the four limbs m (not 0)
Canonical(s, m, e) == Reduced(s, ShiftRight(m, LowZeros(m, 0)), e + LowZeros(m, 0))

\* the limbs q = p shifted right by s bits, rounded to nearest, ties to even
RoundShifted(p, s, q) ==
    IF /\ s > 0
       /\ BitAt(p, s - 1) = 1
       /\ (AnyBitBelow(p, s - 1) \/ q[1] % 2 = 1)
    THEN Increment(q) ELSE q

\* sign * p * 2^e with the s low bits of p rounded away
RoundAt(sign, p, e, s) == Canonical(sign, RoundShifted(p, s, ShiftRight(p, s)), e + s)

\* the number of bits by which an integer of so many bits exceeds a mantissa
Excess(bits) == IF bits > 53 THEN bits - 53 ELSE 0

\* the product of two wide values, rounded to 53 bits
WideMul(x, y) ==
    RoundAt(x[1] * y[1], MulLimbs(x[2], y[2]), x[3] + y[3],
            Excess(BitLen(MulLimbs(x[2], y[2]), 7)))

\* a * b as f64 multiplication rounds it
f64_mul(a, b) ==
    IF ~IsWide(a) /\ ~IsWide(b) THEN FMul(a, b)
    ELSE IF a = Zero \/ b = Zero THEN Zero
    ELSE WideMul(ToWide(a), ToWide(b))

\* v * 2^k modulo 1009, v for k <= 0
RECURSIVE DoubledMod(_, _)
DoubledMod(v, k) ==
    IF k <= 0 THEN v
    ELSE IF k < 14 THEN (v * BitPow[k]) % 1009
    ELSE DoubledMod((v * (Limb % 1009)) % 1009, k - 14)

\* the numerator and the denominator of x in lowest terms, modulo 1009
NumeratorMod(x) ==
    IF ~IsWide(x) THEN x[1] % 1009
    ELSE LET m == x[2]
             h3 == m[4] % 1009
             h2 == (h3 * Limb + m[3]) % 1009
             h1 == (h2 * Limb + m[2]) % 1009
             h0 == (h1 * Limb + m[1]) % 1009
             n == DoubledMod(h0, x[3])
         IN IF x[1] < 0 THEN (1009 - n) % 1009 ELSE n

DenominatorMod(x) ==
    IF ~IsWide(x) THEN x[2] % 1009
    ELSE DoubledMod(1, -x[3])

\* x is an integer
IsIntegral(x) == IF IsWide(x) THEN x[3] >= 0 ELSE x[2] = 1

(***************************************************************************)
(* The outcome of a call: a value, or a panic (the call never returns).    *)
(***************************************************************************)
Val(v) == [panic |-> FALSE, v |-> v]
Panicked == [panic |-> TRUE, v |-> Zero]

NoNode == [kind |-> "None"]
PanicNode == [kind |-> "Panic"]

(***************************************************************************)
(* u32 / u64 bit arithmetic.  A u32 is <<hi, lo>> (16 bits each); a u64 is *)
(* its 8 bytes, least significant first.                                   *)
(***************************************************************************)
Pow2 == <<1, 2, 4, 8, 16, 32, 64, 128, 256, 512, 1024, 2048, 4096, 8192, 16384, 32768>>

Xor(a, b) == (a + b) % 2

Bit32(v, i) ==
    IF i < 0 \/ i > 31 THEN 0
    ELSE IF i < 16 THEN (v[2] \div Pow2[i + 1]) % 2
    ELSE (v[1] \div Pow2[i - 15]) % 2

RECURSIVE Pack16(_, _, _)
Pack16(bits, base, i) ==
    IF i = 16 THEN 0 ELSE bits[base + i] * Pow2[i + 1] + Pack16(bits, base, i + 1)

FromBits32(bits) == <<Pack16(bits, 16, 0), Pack16(bits, 0, 0)>>

Bit64(st, i) ==
    IF i > 63 THEN 0 ELSE (st[(i \div 8) + 1] \div Pow2[(i % 8) + 1]) % 2

\* `seed as u64`
U64(seed) ==
    <<seed[2] % 256, seed[2] \div 256, seed[1] % 256, seed[1] \div 256, 0, 0, 0, 0>>

(***************************************************************************)
(* rand_xorshift::XorShiftRng, as the code uses it: seed_from_u64 (the     *)
(* SeedableRng default: four PCG32 outputs fill the 16-byte seed) and      *)
(* gen::<u32>() (one xorshift step).                                       *)
(***************************************************************************)
\* 6364136223846793005 and 11634580027462260723, as bytes
PcgMul == <<45, 127, 149, 76, 45, 244, 81, 88>>
PcgInc == <<243, 23, 190, 111, 228, 84, 118, 161>>

RECURSIVE ColSum(_, _, _)
ColSum(a, c, i) ==
    IF i > c THEN 0 ELSE a[i] * PcgMul[c + 1 - i] + ColSum(a, c, i + 1)

RECURSIVE MulAdd(_, _, _)
MulAdd(a, c, carry) ==
    IF c > 8 THEN <<>>
    ELSE LET t == ColSum(a, c, 1) + PcgInc[c] + carry
         IN <<t % 256>> \o MulAdd(a, c + 1, t \div 256)

\* state.wrapping_mul(MUL).wrapping_add(INC)
PcgStep(st) == MulAdd(st, 1, 0)

\* ((((state >> 18) ^ state) >> 27) as u32).rotate_right((state >> 59) as u32)
PcgOut(st) ==
    LET xs == [j \in 0..31 |-> Xor(Bit64(st, j + 45), Bit64(st, j + 27))]
        rot == st[8] \div 8
    IN FromBits32([j \in 0..31 |-> xs[(j + rot) % 32]])

\* 0x0BAD_5EED, the xorshift state used for an all-zero seed
BadSeed == <<2989, 24301>>

seed_from_u64(seed) ==
    LET s1 == PcgStep(U64(seed))
        s2 == PcgStep(s1)
        s3 == PcgStep(s2)
        s4 == PcgStep(s3)
        r == <<PcgOut(s1), PcgOut(s2), PcgOut(s3), PcgOut(s4)>>
    IN IF \A i \in 1..4 : r[i] = <<0, 0>>
       THEN <<BadSeed, BadSeed, BadSeed, BadSeed>>
       ELSE r

\* The generator after one gen::<u32>(); the value drawn is its new w, next_u32(rng)[4].
next_u32(rng) ==
    LET x == rng[1]
        w == rng[4]
        t == [i \in 0..31 |-> Xor(Bit32(x, i), Bit32(x, i - 11))]
        tt == [i \in 0..31 |-> Xor(t[i], IF i + 8 > 31 THEN 0 ELSE t[i + 8])]
        nw == FromBits32([i \in 0..31 |->
                  Xor(Xor(Bit32(w, i), Bit32(w, i + 19)), tt[i])])
    IN <<rng[2], rng[3], rng[4], nw>>

\* The generator after k draws whose values are thrown away.
RECURSIVE Skip(_, _)
Skip(rng, k) == IF k = 0 THEN rng ELSE Skip(next_u32(rng), k - 1)

\* The next k values drawn from the generator, in order.
RECURSIVE Draw(_, _)
Draw(rng, k) ==
    IF k = 0 THEN <<>>
    ELSE LET r == next_u32(rng) IN <<r[4]>> \o Draw(r, k - 1)

\* 0xD078_6B3E
Fractal_DEFAULT_SEED == <<53368, 27454>>
Turbulence_DEFAULT_SEED == <<0, 0>>

\* The seeds the operations are called with.
SeedInputs == {<<0, 0>>, <<0, 1>>, Fractal_DEFAULT_SEED}

\* The streams of the seeds the model is known to use, computed once: the
\* inputs, the defaults, and the four seeds Turbulence::new draws.
StreamLen == IF MaxLayers > MaxRoughness THEN MaxLayers ELSE MaxRoughness

StreamSeeds ==
    LET direct == SeedInputs \cup {Fractal_DEFAULT_SEED, Turbulence_DEFAULT_SEED}
        drawn == Draw(seed_from_u64(Turbulence_DEFAULT_SEED), 4)
    IN direct \cup {drawn[i] : i \in 1..4}

Streams == [s \in StreamSeeds |-> Draw(seed_from_u64(s), StreamLen)]

\* The values a fresh XorShiftRng::seed_from_u64(seed) yields in draws
\* skip + 1 .. skip + k, the first `skip` draws being thrown away.
SeedStream(s, skip, k) ==
    IF s \in StreamSeeds /\ skip + k <= StreamLen
    THEN SubSeq(Streams[s], skip + 1, skip + k)
    ELSE Draw(Skip(seed_from_u64(s), skip), k)

(***************************************************************************)
(* Points and point transforms (transforms.rs).  A point is a tuple of 2,  *)
(* 3 or 4 coordinates.                                                     *)
(***************************************************************************)
\* PI * 2.0 / 3.0 as an f64: 4716158501352293 * 2^-51 = 2.0943951023931953
DEFAULT_LACUNARITY == <<1, <<13157, 8373, 5411, 1072>>, -51>>

\* The offsets (in 65536ths) added to the point before distorter i samples it:
\* row i, one column per coordinate; a d-dimensional get uses d rows and columns.
TurbulenceOffsets ==
    << <<12414, 65124, 31337, 57948>>,
       <<26519, 18128, 60943, 48513>>,
       <<53820, 11213, 44845, 39357>>,
       <<18128, 44845, 12414, 60943>> >>

\* The products with DEFAULT_LACUNARITY that the layers of a default fractal
\* need, computed once: the coordinates n/4 from -2 to 3, alone and with an
\* offset added and a frequency of 1 or 2 applied, scaled up to StreamLen
\* times.  Any other product is computed when it is asked for.
SampleCoords ==
    LET base == {R(n, 4) : n \in -8..12}
        offsets == {R(TurbulenceOffsets[i][j], 65536) : i \in 1..4, j \in 1..4}
    IN base \cup {FMul(FAdd(b, o), f) : b \in base, o \in offsets, f \in {One, R(2, 1)}}

RECURSIVE ScaledCoords(_, _)
ScaledCoords(coords, k) ==
    IF k = 0 THEN {}
    ELSE coords \cup ScaledCoords({f64_mul(c, DEFAULT_LACUNARITY) : c \in coords}, k - 1)

ScaledDomain == ScaledCoords(SampleCoords, StreamLen)

Scaled == [c \in ScaledDomain |-> f64_mul(c, DEFAULT_LACUNARITY)]

\* coordinate * scale
mul(coordinate, scale) ==
    IF scale = DEFAULT_LACUNARITY /\ coordinate \in DOMAIN Scaled THEN Scaled[coordinate]
    ELSE f64_mul(coordinate, scale)

RECURSIVE MapScale(_, _, _)
MapScale(point, scale, i) ==
    IF i > Len(point) THEN <<>>
    ELSE <<mul(point[i], scale)>> \o MapScale(point, scale, i + 1)

\* point * scale, coordinate by coordinate
mul_scalar(point, scale) == MapScale(point, scale, 1)

UniformScale_new(scale) == [scale |-> scale]

UniformScale_transform(self, point) == mul_scalar(point, self.scale)

(***************************************************************************)
(* Leaf generators.  Constant and Checkerboard are in the source; the      *)
(* seeded base generators (Perlin, OpenSimplex) are not, and are modelled  *)
(* from their contract: a seed that with_seed replaces, and a value in     *)
(* [-1, 1] that is a fixed function of (seed, point), zero for Perlin on   *)
(* the integer lattice.                                                    *)
(***************************************************************************)
Constant_new(value) == [kind |-> "Constant", value |-> value]

\* A get that scales the value by the first coordinate.
Constant_get_scaled(self, point) == Val(FMul(self.value, point[1]))

Constant_get(self, point) == Val(self.value)

Checkerboard_new(size) == [kind |-> "Checkerboard", size |-> Pow2[size + 1]]

\* a & size, for size a power of two
BitAnd(a, size) == ((a \div size) % 2) * size

\* a ^ b, for a and b both in {0, size}
BitXor(a, b, size) == IF a = b THEN 0 ELSE size

\* ToPrimitive::to_u64 of an f64: the truncated value, None below -1 < x
to_u64(x) ==
    IF x[1] <= -x[2] THEN Panicked
    ELSE Val(IF x[1] < 0 THEN 0 ELSE x[1] \div x[2])

RECURSIVE CheckerboardFold(_, _, _, _)
CheckerboardFold(self, point, i, a) ==
    IF i > Len(point) THEN a
    ELSE CheckerboardFold(self, point, i + 1,
             BitXor(BitAnd(a, self.size),
                    BitAnd(to_u64(point[i]).v, self.size), self.size))

Checkerboard_with_size(self, size) == [self EXCEPT !.size = Pow2[size + 1]]

Checkerboard_DEFAULT_SIZE == 0

Checkerboard_default == [kind |-> "Checkerboard", size |-> Pow2[Checkerboard_DEFAULT_SIZE + 1]]

\* A get that is -1 as soon as any coordinate has the bit set.
Checkerboard_get_any(self, point) ==
    IF \E i \in DOMAIN point : to_u64(point[i]).panic THEN Panicked
    ELSE IF \E i \in DOMAIN point : BitAnd(to_u64(point[i]).v, self.size) > 0
         THEN Val(<<-1, 1>>)
    ELSE Val(One)

Checkerboard_get(self, point) ==
    IF \E i \in DOMAIN point : to_u64(point[i]).panic THEN Panicked
    ELSE LET result == CheckerboardFold(self, point, 1, 0)
         IN IF result > 0 THEN Val(<<-1, 1>>) ELSE Val(One)

BaseFns == {"Perlin", "OpenSimplex"}

\* F::default(): the generator with its own default seed, 0
Base_default(F) == [kind |-> F, seed |-> <<0, 0>>]

Base_with_seed(self, seed) == [self EXCEPT !.seed = seed]

RECURSIVE CoordHash(_, _)
CoordHash(point, i) ==
    IF i > Len(point) THEN 0
    ELSE i * (NumeratorMod(point[i]) + DenominatorMod(point[i])) + CoordHash(point, i + 1)

Base_get(self, point) ==
    IF self.kind = "Perlin" /\ \A i \in DOMAIN point : IsIntegral(point[i]) THEN Zero
    ELSE LET salt == IF self.kind = "Perlin" THEN 0 ELSE 5
         IN R(((self.seed[1] + self.seed[2] + salt + CoordHash(point, 1)) % 5) - 2, 2)

(***************************************************************************)
(* Layer blenders (fractals.rs).                                           *)
(***************************************************************************)
DEFAULT_PERSISTENCE == R(1, 2)
DEFAULT_ATTENUATION == R(2, 1)

HomogenousBlender_new(persistence) ==
    [kind |-> "Homogenous", persistence |-> persistence, attenuation |-> Zero]

HeterogenousBlender_new(persistence) ==
    [kind |-> "Heterogenous", persistence |-> persistence, attenuation |-> Zero]

RidgedBlender_new(attenuation, persistence) ==
    [kind |-> "Ridged", persistence |-> persistence, attenuation |-> attenuation]

\* f64::clamp: panics unless min <= max
f64_clamp(x, min, max) ==
    IF ~FLe(min, max) THEN Panicked
    ELSE IF FLt(x, min) THEN Val(min)
    ELSE IF FGt(x, max) THEN Val(max)
    ELSE Val(x)

RECURSIVE HomogenousLoop(_, _, _, _, _)
HomogenousLoop(self, layer_values, i, result, amplitude) ==
    IF i > Len(layer_values) THEN result
    ELSE HomogenousLoop(self, layer_values, i + 1,
             FAdd(result, FMul(layer_values[i], amplitude)),
             FMul(amplitude, self.persistence))

RECURSIVE HeterogenousLoop(_, _, _, _, _)
HeterogenousLoop(self, layer_values, i, result, amplitude) ==
    IF i > Len(layer_values) THEN result
    ELSE HeterogenousLoop(self, layer_values, i + 1,
             FAdd(result, FMul(FMul(layer_values[i], amplitude), result)),
             FMul(amplitude, self.persistence))

RECURSIVE RidgedLoop(_, _, _, _, _, _)
RidgedLoop(self, layer_values, i, result, amplitude, weight) ==
    IF i > Len(layer_values) THEN result
    ELSE LET folded == FSub(One, FAbs(layer_values[i]))
             value == FMul(FMul(folded, folded), weight)
         IN RidgedLoop(self, layer_values, i + 1,
                FAdd(result, FMul(value, amplitude)),
                FMul(amplitude, self.persistence),
                f64_clamp(FDiv(value, self.attenuation), Zero, One).v)

\* LayerBlender::blend.  On an empty slice the debug_assert! (debug build) or
\* the index layer_values[0] (any build) panics.
Blender_blend(self, layer_values) ==
    IF Len(layer_values) = 0 THEN Panicked
    ELSE CASE self.kind = "Homogenous" ->
                Val(HomogenousLoop(self, layer_values, 1, layer_values[1],
                                   self.persistence))
           [] self.kind = "Heterogenous" ->
                Val(HeterogenousLoop(self, layer_values, 1, layer_values[1],
                                     self.persistence))
           [] self.kind = "Ridged" ->
                Val(RidgedLoop(self, layer_values, 1, layer_values[1],
                               self.persistence, One))

set_persistence(self, persistence) == [self EXCEPT !.persistence = persistence]

set_attenuation(self, attenuation) == [self EXCEPT !.attenuation = attenuation]

(***************************************************************************)
(* Fractal (fractals.rs): a stack of seeded base generators, a point       *)
(* transform applied between layers, and a blender.                        *)
(***************************************************************************)
Fractal_DEFAULT_LAYERS == 6

\* template.clone().with_seed(seed_gen.gen()) for each value drawn
SeededLayers(template, seeds) ==
    [k \in 1..Len(seeds) |-> Base_with_seed(template, seeds[k])]

Fractal_new(layers, F, transform, blender) ==
    LET seed == Fractal_DEFAULT_SEED
    IN [kind |-> "Fractal",
        layers |-> SeededLayers(Base_default(F), SeedStream(seed, 0, layers)),
        transform |-> transform,
        blender |-> blender,
        seed |-> seed]

Fractal_default(F, blender) ==
    Fractal_new(Fractal_DEFAULT_LAYERS, F, UniformScale_new(DEFAULT_LACUNARITY), blender)

Fractal_with_function(self, function_template) ==
    IF debug /\ Len(self.layers) = 0 THEN PanicNode
    ELSE [self EXCEPT !.layers =
             SeededLayers(function_template, SeedStream(self.seed, 0, Len(self.layers)))]

Fractal_with_function_default(self, F) == Fractal_with_function(self, Base_default(F))

\* A with_layers that draws every layer afresh from the stored seed instead of
\* keeping the layers it already has.
Fractal_with_layers_redrawn(self, layers) ==
    IF layers = 0 \/ Len(self.layers) = 0 THEN PanicNode
    ELSE [self EXCEPT !.layers =
             SeededLayers(self.layers[1], SeedStream(self.seed, 0, layers))]

Fractal_with_layers(self, layers) ==
    LET current_num_layers == Len(self.layers) IN
    IF layers = 0 THEN PanicNode
    ELSE IF current_num_layers = layers THEN self
    ELSE IF current_num_layers > layers
         THEN [self EXCEPT !.layers = SubSeq(self.layers, 1, layers)]
    \* an empty stack: debug_assert!(o.len() > 0), then o.first().unwrap()
    ELSE IF current_num_layers = 0 THEN PanicNode
    ELSE LET template == self.layers[1]
             next == SeededLayers(template,
                         SeedStream(self.seed, current_num_layers,
                                    layers - current_num_layers))
         IN [self EXCEPT !.layers = self.layers \o next]

Fractal_with_transform(self, transform) == [self EXCEPT !.transform = transform]

Fractal_with_layer_blender(self, blender) == [self EXCEPT !.blender = blender]

Fractal_with_lacunarity(self, lacunarity) ==
    Fractal_with_transform(self, UniformScale_new(lacunarity))

Fractal_with_persistence(self, persistence) ==
    [self EXCEPT !.blender = set_persistence(self.blender, persistence)]

Fractal_with_attenuation(self, attenuation) ==
    [self EXCEPT !.blender = set_attenuation(self.blender, attenuation)]

Fractal_with_seed(self, seed) ==
    LET seeds == SeedStream(seed, 0, Len(self.layers))
    IN [self EXCEPT !.layers =
           [k \in 1..Len(self.layers) |-> Base_with_seed(self.layers[k], seeds[k])]]

Fractal_seed(self) == self.seed

\* Layer values that are all taken at the same point, the transform never applied.
RECURSIVE LayerValues_untransformed(_, _, _)
LayerValues_untransformed(self, i, point) ==
    IF i > Len(self.layers) THEN <<>>
    ELSE <<Base_get(self.layers[i], point)>>
         \o LayerValues_untransformed(self, i + 1, point)

\* The values of the layers from index i on, the first of them evaluated at point.
RECURSIVE LayerValues(_, _, _)
LayerValues(self, i, point) ==
    IF i > Len(self.layers) THEN <<>>
    ELSE <<Base_get(self.layers[i], point)>>
         \o LayerValues(self, i + 1, UniformScale_transform(self.transform, point))

Fractal_get(self, point) ==
    LET values == LayerValues(self, 1, point)
    IN IF debug /\ Len(values) = 0 THEN Panicked
       ELSE Blender_blend(self.blender, values)

\* The seeds of the layers, in layer order.
LayerSeeds(self) == [k \in 1..Len(self.layers) |-> self.layers[k].seed]

(***************************************************************************)
(* The two traits every node is used through: NoiseFn::get and             *)
(* Seedable::with_seed / seed, dispatched on the node's type.              *)
(***************************************************************************)
RECURSIVE get(_, _)
RECURSIVE with_seed(_, _)
RECURSIVE seed(_)

(***************************************************************************)
(* Transformed (transforms.rs, noise_fns.rs).                              *)
(***************************************************************************)
NoiseFn_transformed(self, transform) ==
    [kind |-> "Transformed", source |-> self, transform |-> transform]

NoiseFn_scaled(self, factor) ==
    [kind |-> "Transformed", source |-> self, transform |-> UniformScale_new(factor)]

Transformed_get(self, point) ==
    get(self.source, UniformScale_transform(self.transform, point))

Transformed_with_seed(self, s) == [self EXCEPT !.source = with_seed(self.source, s)]

Transformed_seed(self) == seed(self.source)

(***************************************************************************)
(* Clamp (modifiers/clamp.rs).                                             *)
(***************************************************************************)
Clamp_new(source) == [kind |-> "Clamp", source |-> source, bounds |-> <<FNeg(One), One>>]

Clamp_with_lower_bound(self, lower_bound) ==
    [self EXCEPT !.bounds = <<lower_bound, self.bounds[2]>>]

Clamp_with_upper_bound(self, upper_bound) ==
    [self EXCEPT !.bounds = <<self.bounds[1], upper_bound>>]

Clamp_with_bounds(self, lower_bound, upper_bound) ==
    [self EXCEPT !.bounds = <<lower_bound, upper_bound>>]

\* A get that clamps from below only.
Clamp_get_lower_only(self, point) ==
    LET value == get(self.source, point)
    IN IF value.panic THEN Panicked
       ELSE IF ~FLe(self.bounds[1], self.bounds[2]) THEN Panicked
       ELSE IF FLt(value.v, self.bounds[1]) THEN Val(self.bounds[1])
       ELSE value

Clamp_get(self, point) ==
    LET value == get(self.source, point)
    IN IF value.panic THEN Panicked
       ELSE f64_clamp(value.v, self.bounds[1], self.bounds[2])

(***************************************************************************)
(* Select (selectors/select.rs).  The s-curve and the interpolation of     *)
(* crate::math are not in the source: map_cubic is the cubic ease          *)
(* 3x^2 - 2x^3 and linear is the linear interpolation from a to b.          *)
(***************************************************************************)
map_cubic(x) == FMul(FMul(x, x), FSub(R(3, 1), FMul(x, R(2, 1))))

interpolate_linear(a, b, alpha) == FAdd(FMul(b, alpha), FMul(a, FSub(One, alpha)))

Select_new(source1, source2, control) ==
    [kind |-> "Select", source1 |-> source1, source2 |-> source2,
     control |-> control, bounds |-> <<Zero, One>>, falloff |-> Zero]

Select_with_bounds(self, lower_bound, upper_bound) ==
    [self EXCEPT !.bounds = <<lower_bound, upper_bound>>]

Select_with_falloff(self, falloff) == [self EXCEPT !.falloff = falloff]

\* interpolate::linear(from.get(point), to.get(point), alpha) on the curve
\* between lower_curve and upper_curve
SelectCurve(from, to, control_value, lower_curve, upper_curve) ==
    LET alpha == map_cubic(FDiv(FSub(control_value, lower_curve),
                                FSub(upper_curve, lower_curve)))
    IN IF from.panic \/ to.panic THEN Panicked
       ELSE Val(interpolate_linear(from.v, to.v, alpha))

\* A get whose hard switch keeps source2 strictly inside the bounds only.
Select_get_exclusive(self, point) ==
    LET control == get(self.control, point)
    IN IF control.panic THEN Panicked
       ELSE IF FLe(control.v, self.bounds[1]) \/ ~FLt(control.v, self.bounds[2])
            THEN get(self.source1, point)
       ELSE get(self.source2, point)

Select_get(self, point) ==
    LET control == get(self.control, point)
        control_value == control.v
        lower == self.bounds[1]
        upper == self.bounds[2]
        falloff == self.falloff
    IN IF control.panic THEN Panicked
       ELSE IF FGt(falloff, Zero)
       THEN IF FLt(control_value, FSub(lower, falloff))
                THEN get(self.source1, point)
            ELSE IF FLt(control_value, FAdd(lower, falloff))
                THEN SelectCurve(get(self.source1, point), get(self.source2, point),
                         control_value, FSub(lower, falloff), FAdd(lower, falloff))
            ELSE IF FLt(control_value, FSub(upper, falloff))
                THEN get(self.source2, point)
            ELSE IF FLt(control_value, FAdd(upper, falloff))
                THEN SelectCurve(get(self.source2, point), get(self.source1, point),
                         control_value, FSub(upper, falloff), FAdd(upper, falloff))
            ELSE get(self.source1, point)
       ELSE IF FLt(control_value, lower) \/ FGt(control_value, upper)
            THEN get(self.source1, point)
       ELSE get(self.source2, point)

(***************************************************************************)
(* Turbulence (transformers/turbulence.rs).                                *)
(***************************************************************************)
Turbulence_DEFAULT_FREQUENCY == One
Turbulence_DEFAULT_POWER == One
Turbulence_DEFAULT_ROUGHNESS == 3

\* FractalPerlin::default()
FractalPerlin_default == Fractal_default("Perlin", HomogenousBlender_new(DEFAULT_PERSISTENCE))

Turbulence_new(source) ==
    LET s == Turbulence_DEFAULT_SEED
        seeds == SeedStream(s, 0, 4)
        frequency == Turbulence_DEFAULT_FREQUENCY
    IN [kind |-> "Turbulence",
        source |-> source,
        seed |-> s,
        frequency |-> frequency,
        power |-> Turbulence_DEFAULT_POWER,
        roughness |-> Turbulence_DEFAULT_ROUGHNESS,
        distorters |->
            [i \in 1..4 |->
                NoiseFn_scaled(Fractal_with_seed(FractalPerlin_default, seeds[i]),
                               frequency)]]

\* A with_frequency that stores the field and leaves the distorters as they are.
Turbulence_with_frequency_field_only(self, frequency) ==
    [self EXCEPT !.frequency = frequency]

Turbulence_with_frequency(self, frequency) ==
    [self EXCEPT !.frequency = frequency,
                 !.distorters = [i \in 1..4 |->
                     [self.distorters[i] EXCEPT !.transform.scale = frequency]]]

Turbulence_with_power(self, power) == [self EXCEPT !.power = power]

Turbulence_with_roughness(self, roughness) ==
    LET resized == [i \in 1..4 |->
                       Fractal_with_layers(self.distorters[i].source, roughness)]
    IN IF \E i \in 1..4 : resized[i] = PanicNode THEN PanicNode
       ELSE [self EXCEPT !.roughness = roughness,
                         !.distorters = [i \in 1..4 |->
                             NoiseFn_transformed(resized[i], self.distorters[i].transform)]]

Turbulence_with_seed(self, s) ==
    [self EXCEPT !.seed = s,
                 !.distorters = [i \in 1..4 |-> Transformed_with_seed(self.distorters[i], s)]]

Turbulence_seed(self) == self.seed

\* [point[j] + offset(i, j), ...] for the coordinates from j on
RECURSIVE OffsetPoint(_, _, _)
OffsetPoint(point, i, j) ==
    IF j > Len(point) THEN <<>>
    ELSE <<FAdd(point[j], R(TurbulenceOffsets[i][j], 65536))>>
         \o OffsetPoint(point, i, j + 1)

\* distorters[i].get([x_i, y_i, ...])
Distortion(self, point, i) == get(self.distorters[i], OffsetPoint(point, i, 1))

\* The values of distorters i .. Len(point), one per coordinate.
RECURSIVE Distortions(_, _, _)
Distortions(self, point, i) ==
    IF i > Len(point) THEN <<>>
    ELSE <<Distortion(self, point, i)>> \o Distortions(self, point, i + 1)

\* [point[i] + d[i] * power, ...] for the coordinates from i on
RECURSIVE Distorted(_, _, _, _)
Distorted(point, d, power, i) ==
    IF i > Len(point) THEN <<>>
    ELSE <<FAdd(point[i], FMul(d[i].v, power))>> \o Distorted(point, d, power, i + 1)

\* A get that displaces the point by the distortions themselves, whatever the
\* power.
Turbulence_get_unscaled(self, point) ==
    LET d == Distortions(self, point, 1)
    IN IF \E i \in DOMAIN point : d[i].panic THEN Panicked
       ELSE get(self.source, Distorted(point, d, One, 1))

Turbulence_get(self, point) ==
    LET d == Distortions(self, point, 1)
    IN IF \E i \in DOMAIN point : d[i].panic THEN Panicked
       ELSE get(self.source, Distorted(point, d, self.power, 1))

(***************************************************************************)
(* Combiners (combiners.rs).  The combiner! macro declares one struct per  *)
(* invocation, but writes its two impl blocks for Add whatever the name    *)
(* it was invoked with: every expansion gives Add a new and a NoiseFn impl *)
(* with that expansion's operator, and gives Multiply, Power, Min and Max  *)
(* nothing but their public fields.  Which of the five operators an Add    *)
(* node evaluates with is the build's choice, recorded in the node as      *)
(* combine_fn; a node of another type has no get, and asking for one is    *)
(* reported like a panic: no value comes back.  The two setters are no     *)
(* step of any chain.  with!(source1: A) at line 23 passes no visibility   *)
(* to the macro, so with_source1 is private to combiners.rs, which never   *)
(* calls it.  Line 24 reads with!(source2: A): its parameter has the type  *)
(* of source1 and is stored in the field source2 of type B, which no A and *)
(* B allow, so no build has a with_source2.  The children of a combiner    *)
(* are what new or the struct literal was given.                           *)
(***************************************************************************)
Combiners == {"Add", "Multiply", "Power", "Min", "Max"}

\* the $combine_fn of the five invocations
CombineFns == {"add", "mul", "powf", "min", "max"}

\* a ^ n for a natural n
RECURSIVE FPowNat(_, _)
FPowNat(a, n) == IF n = 0 THEN One ELSE FMul(a, FPowNat(a, n - 1))

\* f64::powf for an integral exponent (the only exponents the chains use)
f64_powf(a, b) ==
    CASE b[2] = 1 /\ b[1] >= 0 -> FPowNat(a, b[1])
      [] b[2] = 1 /\ b[1] < 0 /\ a # Zero -> FDiv(One, FPowNat(a, -b[1]))

f64_min(a, b) == IF FLt(b, a) THEN b ELSE a

f64_max(a, b) == IF FGt(b, a) THEN b ELSE a

combine(combine_fn, a, b) ==
    CASE combine_fn = "add" -> FAdd(a, b)
      [] combine_fn = "mul" -> FMul(a, b)
      [] combine_fn = "powf" -> f64_powf(a, b)
      [] combine_fn = "min" -> f64_min(a, b)
      [] combine_fn = "max" -> f64_max(a, b)

\* Add::new, as one of the expansions defines it
Combiner_new(source1, source2, combine_fn) ==
    [kind |-> "Add", source1 |-> source1, source2 |-> source2,
     combine_fn |-> combine_fn]

\* $name { source1, source2 }: the struct literal, the fields being public
Combiner_literal(name, source1, source2) ==
    [kind |-> name, source1 |-> source1, source2 |-> source2, combine_fn |-> "none"]

Combiner_get(self, point) ==
    LET a == get(self.source1, point)
        b == get(self.source2, point)
    IN IF self.combine_fn = "none" THEN Panicked
       ELSE IF a.panic \/ b.panic THEN Panicked
       ELSE Val(combine(self.combine_fn, a.v, b.v))

(***************************************************************************)
(* ScaleBias (modifiers/scale_bias.rs).                                    *)
(***************************************************************************)
ScaleBias_new(source) ==
    [kind |-> "ScaleBias", source |-> source, scale |-> One, bias |-> Zero]

ScaleBias_with_scale(self, scale) == [self EXCEPT !.scale = scale]

ScaleBias_with_bias(self, bias) == [self EXCEPT !.bias = bias]

\* f64::mul_add(a, b): self * a + b with one rounding
f64_mul_add(x, a, b) == FAdd(FMul(x, a), b)

\* A get that adds the bias before it scales.
ScaleBias_get_bias_first(self, point) ==
    LET value == get(self.source, point)
    IN IF value.panic THEN Panicked
       ELSE Val(FMul(FAdd(value.v, self.bias), self.scale))

ScaleBias_get(self, point) ==
    LET value == get(self.source, point)
    IN IF value.panic THEN Panicked
       ELSE Val(f64_mul_add(value.v, self.scale, self.bias))

(***************************************************************************)
(* Blend (selectors/blend.rs).                                             *)
(***************************************************************************)
Blend_new(source1, source2, control) ==
    [kind |-> "Blend", source1 |-> source1, source2 |-> source2, control |-> control]

\* A get that keeps the control value within [0, 1].
Blend_get_clamped(self, point) ==
    LET lower == get(self.source1, point)
        upper == get(self.source2, point)
        control == get(self.control, point)
    IN IF lower.panic \/ upper.panic \/ control.panic THEN Panicked
       ELSE Val(interpolate_linear(lower.v, upper.v, f64_clamp(control.v, Zero, One).v))

Blend_get(self, point) ==
    LET lower == get(self.source1, point)
        upper == get(self.source2, point)
        control == get(self.control, point)
    IN IF lower.panic \/ upper.panic \/ control.panic THEN Panicked
       ELSE Val(interpolate_linear(lower.v, upper.v, control.v))

(***************************************************************************)
(* Exponent (modifiers/exponent.rs).  scale_shift is in crate::math, which *)
(* is not in the source: it maps [0, 1] back onto [-1, 1], value * n - 1.  *)
(***************************************************************************)
Exponent_new(source) == [kind |-> "Exponent", source |-> source, exponent |-> One]

Exponent_with_exponent(self, exponent) == [self EXCEPT !.exponent = exponent]

scale_shift(value, n) == FSub(FMul(value, n), One)

\* A get that raises the normalized value as it is, without taking abs.
Exponent_get_signed(self, point) ==
    LET source == get(self.source, point)
        value1 == FDiv(FAdd(source.v, One), R(2, 1))
        value3 == f64_powf(value1, self.exponent)
    IN IF source.panic THEN Panicked
       ELSE Val(scale_shift(value3, R(2, 1)))

Exponent_get(self, point) ==
    LET source == get(self.source, point)
        value1 == FDiv(FAdd(source.v, One), R(2, 1))
        value2 == FAbs(value1)
        value3 == f64_powf(value2, self.exponent)
    IN IF source.panic THEN Panicked
       ELSE Val(scale_shift(value3, R(2, 1)))

(***************************************************************************)
(* Trait dispatch.                                                         *)
(***************************************************************************)
get(self, point) ==
    CASE self.kind = "Constant" -> Constant_get(self, point)
      [] self.kind = "Checkerboard" -> Checkerboard_get(self, point)
      [] self.kind \in BaseFns -> Val(Base_get(self, point))
      [] self.kind = "Fractal" -> Fractal_get(self, point)
      [] self.kind = "Transformed" -> Transformed_get(self, point)
      [] self.kind = "Clamp" -> Clamp_get(self, point)
      [] self.kind = "Select" -> Select_get(self, point)
      [] self.kind = "Turbulence" -> Turbulence_get(self, point)
      [] self.kind \in Combiners -> Combiner_get(self, point)
      [] self.kind = "ScaleBias" -> ScaleBias_get(self, point)
      [] self.kind = "Blend" -> Blend_get(self, point)
      [] self.kind = "Exponent" -> Exponent_get(self, point)

with_seed(self, s) ==
    CASE self.kind \in BaseFns -> Base_with_seed(self, s)
      [] self.kind = "Fractal" -> Fractal_with_seed(self, s)
      [] self.kind = "Transformed" -> Transformed_with_seed(self, s)
      [] self.kind = "Turbulence" -> Turbulence_with_seed(self, s)

seed(self) ==
    CASE self.kind \in BaseFns -> self.seed
      [] self.kind = "Fractal" -> Fractal_seed(self)
      [] self.kind = "Transformed" -> Transformed_seed(self)
      [] self.kind = "Turbulence" -> Turbulence_seed(self)

(***************************************************************************)
(* The inputs the operations are called with.                              *)
(***************************************************************************)
Perlin_default == Base_default("Perlin")

Points ==
    { <<One, Zero>>, <<R(1, 2), R(3, 2)>>, <<R(-2, 1), One>>,
      <<One, R(5, 2), R(3, 1)>>, <<R(1, 2), R(1, 4), R(3, 1), R(2, 1)>> }

\* one point of each dimension
TurbulencePoints ==
    { <<R(1, 2), R(3, 2)>>, <<One, R(5, 2), R(3, 1)>>,
      <<R(1, 2), R(1, 4), R(3, 1), R(2, 1)>> }

TurbulenceSourceInputs == {Constant_new(R(1, 2)), Checkerboard_new(0), Perlin_default}

TurbulenceSeedInputs == {<<0, 0>>, <<0, 1>>}

BlenderInputs ==
    { HomogenousBlender_new(DEFAULT_PERSISTENCE),
      HeterogenousBlender_new(DEFAULT_PERSISTENCE),
      RidgedBlender_new(DEFAULT_ATTENUATION, DEFAULT_PERSISTENCE) }

PersistenceInputs == {R(1, 4)}
AttenuationInputs == {One}
LacunarityInputs == {R(3, 1)}

SourceInputs ==
    { Constant_new(R(5, 1)), Constant_new(R(-2, 1)), Constant_new(R(1, 2)),
      Checkerboard_new(0), Perlin_default }

BoundInputs == {FNeg(One), Zero, R(1, 2), One}

FalloffInputs == {Zero, R(1, 4), R(1, 2)}

ControlInputs ==
    { Constant_new(FNeg(One)), Constant_new(Zero), Constant_new(R(1, 4)),
      Constant_new(R(1, 2)), Constant_new(One), Constant_new(R(2, 1)),
      Checkerboard_new(0) }

SelectSource1Inputs == {Constant_new(R(-2, 1)), Perlin_default}

SelectSource2Inputs == {Constant_new(R(5, 1))}

RoughnessInputs == {0, 1, Turbulence_DEFAULT_ROUGHNESS, MaxRoughness}

FrequencyInputs == {One, R(2, 1)}

PowerInputs == {Zero, One, R(1, 2)}

(***************************************************************************)
(* The builder chain.                                                      *)
(***************************************************************************)
NoOut == [point |-> <<>>, res |-> Val(Zero)]

NoOp == [name |-> "none", n |-> 0, was |-> 0, panic |-> FALSE]

\* The number of layers of the node the chain owns (0 when it has none).
LayerCount(self) == IF self.kind = "Fractal" THEN Len(self.layers) ELSE 0

\* A constructor or with_ call returned `result` (or panicked).  A constructor
\* starts a chain (node is NoNode); a with_ call consumes the node.
Configure(result, name, n) ==
    /\ node' = IF result.kind = "Panic" THEN NoNode ELSE result
    /\ op' = [name |-> name, n |-> n, was |-> LayerCount(node),
              panic |-> result.kind = "Panic"]
    /\ out' = NoOut
    /\ UNCHANGED <<debug, calls, twin, evals>>

\* node.get(point): get borrows the node, which outlives even a panic of the call
Evaluate(point) ==
    LET res == get(node, point)
    IN /\ node.kind # "None"
       /\ node' = node
       /\ op' = [name |-> "get", n |-> 0, was |-> LayerCount(node), panic |-> res.panic]
       /\ out' = [point |-> point, res |-> res]
       /\ UNCHANGED <<debug, given, calls, twin, evals>>

\* a generator no call has created
NoGen == << <<0, 0>>, <<0, 0>>, <<0, 0>>, <<0, 0>> >>

\* a builder with no call in flight
Quiet ==
    [pc |-> "idle", name |-> "none", F |-> "Perlin", self |-> NoNode,
     layers |-> <<>>, skip |-> 0, todo |-> 0]

\* no second node built yet: the node, the number of recorded calls made on
\* it, the call each of the two builders is in, the generator of each, and
\* the point and the result of the last get on the second node
NoTwin ==
    [node |-> NoNode, done |-> 0, call |-> <<Quiet, Quiet>>,
     gens |-> <<NoGen, NoGen>>, point |-> <<>>, res |-> Val(Zero)]

Evaluators == 1..NumEvaluators

\* an evaluator with no get in flight
Idle ==
    [pc |-> "idle", parent |-> "direct", point |-> <<>>, at |-> <<>>, i |-> 0,
     values |-> <<>>, res |-> Val(Zero)]

Init ==
    /\ debug \in BOOLEAN
    /\ node = NoNode
    /\ given = <<0, 0>>
    /\ op = NoOp
    /\ out = NoOut
    /\ calls = <<>>
    /\ twin = NoTwin
    /\ evals = [e \in Evaluators |-> Idle]

(***************************************************************************)
(* Fractal chains.                                                         *)
(***************************************************************************)
FractalNew(layers, F, blender) ==
    /\ node.kind = "None"
    /\ Configure(Fractal_new(layers, F, UniformScale_new(DEFAULT_LACUNARITY), blender),
                 "new", layers)
    /\ given' = Fractal_DEFAULT_SEED

FractalWithFunction(function_template) ==
    /\ node.kind = "Fractal"
    /\ Configure(Fractal_with_function(node, function_template), "with_function", 0)
    /\ UNCHANGED given

FractalWithFunctionDefault(F) ==
    /\ node.kind = "Fractal"
    /\ Configure(Fractal_with_function_default(node, F), "with_function_default", 0)
    /\ UNCHANGED given

FractalWithLayers(layers) ==
    /\ node.kind = "Fractal"
    /\ Configure(Fractal_with_layers(node, layers), "with_layers", layers)
    /\ UNCHANGED given

FractalWithTransform(transform) ==
    /\ node.kind = "Fractal"
    /\ Configure(Fractal_with_transform(node, transform), "with_transform", 0)
    /\ UNCHANGED given

FractalWithLayerBlender(blender) ==
    /\ node.kind = "Fractal"
    /\ Configure(Fractal_with_layer_blender(node, blender), "with_layer_blender", 0)
    /\ UNCHANGED given

FractalWithLacunarity(lacunarity) ==
    /\ node.kind = "Fractal"
    /\ Configure(Fractal_with_lacunarity(node, lacunarity), "with_lacunarity", 0)
    /\ UNCHANGED given

FractalWithPersistence(persistence) ==
    /\ node.kind = "Fractal"
    /\ Configure(Fractal_with_persistence(node, persistence), "with_persistence", 0)
    /\ UNCHANGED given

\* only a blender with an attenuation (ModifiableAttenuation) has the method
FractalWithAttenuation(attenuation) ==
    /\ node.kind = "Fractal"
    /\ node.blender.kind = "Ridged"
    /\ Configure(Fractal_with_attenuation(node, attenuation), "with_attenuation", 0)
    /\ UNCHANGED given

FractalWithSeed(s) ==
    /\ node.kind = "Fractal"
    /\ Configure(with_seed(node, s), "with_seed", 0)
    /\ given' = s

FractalGet(point) ==
    /\ node.kind = "Fractal"
    /\ Evaluate(point)

NextFractal ==
    \/ \E layers \in 0..MaxLayers, F \in BaseFns, b \in BlenderInputs :
           FractalNew(layers, F, b)
    \/ \E F \in BaseFns, s \in SeedInputs :
           FractalWithFunction(Base_with_seed(Base_default(F), s))
    \/ \E F \in BaseFns : FractalWithFunctionDefault(F)
    \/ \E layers \in 0..MaxLayers : FractalWithLayers(layers)
    \/ \E l \in LacunarityInputs : FractalWithTransform(UniformScale_new(l))
    \/ \E b \in BlenderInputs : FractalWithLayerBlender(b)
    \/ \E l \in LacunarityInputs : FractalWithLacunarity(l)
    \/ \E p \in PersistenceInputs : FractalWithPersistence(p)
    \/ \E a \in AttenuationInputs : FractalWithAttenuation(a)
    \/ \E s \in SeedInputs : FractalWithSeed(s)
    \/ \E point \in Points : FractalGet(point)

SpecFractal == Init /\ [][NextFractal]_vars

(***************************************************************************)
(* Turbulence chains.                                                      *)
(***************************************************************************)
TurbulenceNew(source) ==
    /\ node.kind = "None"
    /\ Configure(Turbulence_new(source), "new", 0)
    /\ given' = Turbulence_DEFAULT_SEED

TurbulenceWithFrequency(frequency) ==
    /\ node.kind = "Turbulence"
    /\ Configure(Turbulence_with_frequency(node, frequency), "with_frequency", 0)
    /\ UNCHANGED given

TurbulenceWithPower(power) ==
    /\ node.kind = "Turbulence"
    /\ Configure(Turbulence_with_power(node, power), "with_power", 0)
    /\ UNCHANGED given

TurbulenceWithRoughness(roughness) ==
    /\ node.kind = "Turbulence"
    /\ Configure(Turbulence_with_roughness(node, roughness), "with_roughness", roughness)
    /\ UNCHANGED given

TurbulenceWithSeed(s) ==
    /\ node.kind = "Turbulence"
    /\ Configure(with_seed(node, s), "with_seed", 0)
    /\ given' = s

TurbulenceGet(point) ==
    /\ node.kind = "Turbulence"
    /\ Evaluate(point)

NextTurbulence ==
    \/ \E source \in TurbulenceSourceInputs : TurbulenceNew(source)
    \/ \E f \in FrequencyInputs : TurbulenceWithFrequency(f)
    \/ \E p \in PowerInputs : TurbulenceWithPower(p)
    \/ \E r \in RoughnessInputs : TurbulenceWithRoughness(r)
    \/ \E s \in TurbulenceSeedInputs : TurbulenceWithSeed(s)
    \/ \E point \in TurbulencePoints : TurbulenceGet(point)

SpecTurbulence == Init /\ [][NextTurbulence]_vars

(***************************************************************************)
(* Clamp chains.  A Clamp may be built over a leaf or over the Clamp the   *)
(* chain owns.                                                             *)
(***************************************************************************)
RECURSIVE ClampDepth(_)
ClampDepth(self) == IF self.kind = "Clamp" THEN 1 + ClampDepth(self.source) ELSE 0

ClampNew(source) ==
    /\ node.kind = "None"
    /\ Configure(Clamp_new(source), "new", 0)
    /\ UNCHANGED given

ClampOverClamp ==
    /\ node.kind = "Clamp"
    /\ ClampDepth(node) < MaxDepth
    /\ Configure(Clamp_new(node), "new", 0)
    /\ UNCHANGED given

ClampWithLowerBound(lower_bound) ==
    /\ node.kind = "Clamp"
    /\ Configure(Clamp_with_lower_bound(node, lower_bound), "with_lower_bound", 0)
    /\ UNCHANGED given

ClampWithUpperBound(upper_bound) ==
    /\ node.kind = "Clamp"
    /\ Configure(Clamp_with_upper_bound(node, upper_bound), "with_upper_bound", 0)
    /\ UNCHANGED given

ClampWithBounds(lower_bound, upper_bound) ==
    /\ node.kind = "Clamp"
    /\ Configure(Clamp_with_bounds(node, lower_bound, upper_bound), "with_bounds", 0)
    /\ UNCHANGED given

ClampGet(point) ==
    /\ node.kind = "Clamp"
    /\ Evaluate(point)

NextClamp ==
    \/ \E source \in SourceInputs : ClampNew(source)
    \/ ClampOverClamp
    \/ \E b \in BoundInputs : ClampWithLowerBound(b)
    \/ \E b \in BoundInputs : ClampWithUpperBound(b)
    \/ \E lo \in BoundInputs, hi \in BoundInputs : ClampWithBounds(lo, hi)
    \/ \E point \in Points : ClampGet(point)

SpecClamp == Init /\ [][NextClamp]_vars

(***************************************************************************)
(* Select chains.                                                          *)
(***************************************************************************)
SelectNew(source1, source2, control) ==
    /\ node.kind = "None"
    /\ Configure(Select_new(source1, source2, control), "new", 0)
    /\ UNCHANGED given

SelectWithBounds(lower_bound, upper_bound) ==
    /\ node.kind = "Select"
    /\ Configure(Select_with_bounds(node, lower_bound, upper_bound), "with_bounds", 0)
    /\ UNCHANGED given

SelectWithFalloff(falloff) ==
    /\ node.kind = "Select"
    /\ Configure(Select_with_falloff(node, falloff), "with_falloff", 0)
    /\ UNCHANGED given

SelectGet(point) ==
    /\ node.kind = "Select"
    /\ Evaluate(point)

NextSelect ==
    \/ \E s1 \in SelectSource1Inputs, s2 \in SelectSource2Inputs, c \in ControlInputs :
           SelectNew(s1, s2, c)
    \/ \E lo \in BoundInputs, hi \in BoundInputs : SelectWithBounds(lo, hi)
    \/ \E f \in FalloffInputs : SelectWithFalloff(f)
    \/ \E point \in Points : SelectGet(point)

SpecSelect == Init /\ [][NextSelect]_vars

(***************************************************************************)
(* Combiner chains.                                                        *)
(***************************************************************************)
CombinerSource1Inputs ==
    {Constant_new(R(1, 2)), Constant_new(R(-2, 1)), Checkerboard_new(0)}

\* integral values only: they are also the exponents of powf
CombinerSource2Inputs ==
    {Constant_new(R(2, 1)), Constant_new(R(-1, 1)), Checkerboard_new(0)}

CombinerNew(source1, source2, combine_fn) ==
    /\ node.kind = "None"
    /\ Configure(Combiner_new(source1, source2, combine_fn), "new", 0)
    /\ UNCHANGED given

CombinerLiteral(name, source1, source2) ==
    /\ node.kind = "None"
    /\ Configure(Combiner_literal(name, source1, source2), "literal", 0)
    /\ UNCHANGED given

CombinerGet(point) ==
    /\ node.kind \in Combiners
    /\ Evaluate(point)

NextCombiner ==
    \/ \E s1 \in CombinerSource1Inputs, s2 \in CombinerSource2Inputs, f \in CombineFns :
           CombinerNew(s1, s2, f)
    \/ \E name \in Combiners \ {"Add"},
          s1 \in CombinerSource1Inputs, s2 \in CombinerSource2Inputs :
           CombinerLiteral(name, s1, s2)
    \/ \E point \in Points : CombinerGet(point)

SpecCombiner == Init /\ [][NextCombiner]_vars

(***************************************************************************)
(* Generator chains: Constant and Checkerboard.                            *)
(***************************************************************************)
ConstantInputs == {Zero, One, R(-2, 1), R(1, 2), R(5, 1)}

\* the corners of the lattice cells 0..3 in two dimensions, and points of
\* three and four dimensions, of fractional and of negative coordinates
LatticePoints ==
    {<<R(x, 1), R(y, 1)>> : x \in 0..3, y \in 0..3}
    \cup { <<One, R(2, 1), R(3, 1)>>, <<One, One, One>>, <<R(2, 1), Zero, R(3, 1), One>>,
           <<R(3, 2), R(1, 2)>>, <<R(-1, 2), One>>, <<R(-2, 1), One>> }

ConstantNew(value) ==
    /\ node.kind = "None"
    /\ Configure(Constant_new(value), "new", 0)
    /\ UNCHANGED given

ConstantGet(point) ==
    /\ node.kind = "Constant"
    /\ Evaluate(point)

CheckerboardNew(size) ==
    /\ node.kind = "None"
    /\ Configure(Checkerboard_new(size), "new", size)
    /\ UNCHANGED given

CheckerboardDefault ==
    /\ node.kind = "None"
    /\ Configure(Checkerboard_default, "default", Checkerboard_DEFAULT_SIZE)
    /\ UNCHANGED given

CheckerboardWithSize(size) ==
    /\ node.kind = "Checkerboard"
    /\ Configure(Checkerboard_with_size(node, size), "with_size", size)
    /\ UNCHANGED given

CheckerboardGet(point) ==
    /\ node.kind = "Checkerboard"
    /\ Evaluate(point)

NextGenerator ==
    \/ \E value \in ConstantInputs : ConstantNew(value)
    \/ \E point \in Points \cup LatticePoints : ConstantGet(point)
    \/ \E size \in 0..MaxSize : CheckerboardNew(size)
    \/ CheckerboardDefault
    \/ \E size \in 0..MaxSize : CheckerboardWithSize(size)
    \/ \E point \in LatticePoints : CheckerboardGet(point)

SpecGenerator == Init /\ [][NextGenerator]_vars

(***************************************************************************)
(* ScaleBias chains.                                                       *)
(***************************************************************************)
ScaleInputs == {One, R(2, 1), R(-1, 2)}

BiasInputs == {Zero, R(1, 2), R(-1, 1)}

ScaleBiasNew(source) ==
    /\ node.kind = "None"
    /\ Configure(ScaleBias_new(source), "new", 0)
    /\ UNCHANGED given

ScaleBiasWithScale(scale) ==
    /\ node.kind = "ScaleBias"
    /\ Configure(ScaleBias_with_scale(node, scale), "with_scale", 0)
    /\ UNCHANGED given

ScaleBiasWithBias(bias) ==
    /\ node.kind = "ScaleBias"
    /\ Configure(ScaleBias_with_bias(node, bias), "with_bias", 0)
    /\ UNCHANGED given

ScaleBiasGet(point) ==
    /\ node.kind = "ScaleBias"
    /\ Evaluate(point)

NextScaleBias ==
    \/ \E source \in SourceInputs \cup {Constant_new(One)} : ScaleBiasNew(source)
    \/ \E scale \in ScaleInputs : ScaleBiasWithScale(scale)
    \/ \E bias \in BiasInputs : ScaleBiasWithBias(bias)
    \/ \E point \in Points : ScaleBiasGet(point)

SpecScaleBias == Init /\ [][NextScaleBias]_vars

(***************************************************************************)
(* Blenders called directly: LayerBlender::blend on a list of values.      *)
(* node holds the blender, out.point the list and out.res the result.      *)
(***************************************************************************)
LayerValueInputs == {R(-1, 1), R(-1, 2), Zero, R(1, 2), One}

\* the lists of n layer values
RECURSIVE ValueLists(_)
ValueLists(n) ==
    IF n = 0 THEN {<<>>}
    ELSE {<<v>> \o rest : v \in LayerValueInputs, rest \in ValueLists(n - 1)}

BlendPersistenceInputs == {DEFAULT_PERSISTENCE, R(1, 4)}

BlendAttenuationInputs == {DEFAULT_ATTENUATION, One}

BlenderKinds == {"Homogenous", "Heterogenous", "Ridged"}

HomogenousNew(persistence) ==
    /\ node.kind = "None"
    /\ Configure(HomogenousBlender_new(persistence), "new", 0)
    /\ UNCHANGED given

HeterogenousNew(persistence) ==
    /\ node.kind = "None"
    /\ Configure(HeterogenousBlender_new(persistence), "new", 0)
    /\ UNCHANGED given

RidgedNew(attenuation, persistence) ==
    /\ node.kind = "None"
    /\ Configure(RidgedBlender_new(attenuation, persistence), "new", 0)
    /\ UNCHANGED given

BlenderSetPersistence(persistence) ==
    /\ node.kind \in BlenderKinds
    /\ Configure(set_persistence(node, persistence), "set_persistence", 0)
    /\ UNCHANGED given

BlenderSetAttenuation(attenuation) ==
    /\ node.kind = "Ridged"
    /\ Configure(set_attenuation(node, attenuation), "set_attenuation", 0)
    /\ UNCHANGED given

\* node.blend(&layer_values)
Blend(layer_values) ==
    LET res == Blender_blend(node, layer_values)
    IN /\ node.kind \in BlenderKinds
       /\ node' = node
       /\ op' = [name |-> "blend", n |-> Len(layer_values), was |-> 0, panic |-> res.panic]
       /\ out' = [point |-> layer_values, res |-> res]
       /\ UNCHANGED <<debug, given, calls, twin, evals>>

NextBlend ==
    \/ \E p \in BlendPersistenceInputs : HomogenousNew(p)
    \/ \E p \in BlendPersistenceInputs : HeterogenousNew(p)
    \/ \E a \in BlendAttenuationInputs, p \in BlendPersistenceInputs : RidgedNew(a, p)
    \/ \E p \in BlendPersistenceInputs : BlenderSetPersistence(p)
    \/ \E a \in BlendAttenuationInputs : BlenderSetAttenuation(a)
    \/ \E n \in 0..MaxValues : \E layer_values \in ValueLists(n) : Blend(layer_values)

SpecBlend == Init /\ [][NextBlend]_vars

(***************************************************************************)
(* Shared evaluation.  One fractal is shared by reference (the impl of     *)
(* NoiseFn for &M, noise_fns.rs): evaluators call get on it directly or    *)
(* through one of two parents that hold the reference, a Clamp and a       *)
(* scaled Transformed.  Fractal::get is split at its layer loop, so that   *)
(* the calls of different evaluators interleave layer by layer.  twin.node *)
(* keeps the value the node had when it was shared.                        *)
(***************************************************************************)
\* the points the evaluators call get at
ReplayPoints == {<<R(1, 2), R(3, 2)>>, <<One, R(5, 2), R(3, 1)>>}

SharedNodes ==
    { Fractal_new(2, "OpenSimplex", UniformScale_new(DEFAULT_LACUNARITY),
                  HomogenousBlender_new(DEFAULT_PERSISTENCE)),
      with_seed(Fractal_new(MaxLayers, "Perlin", UniformScale_new(DEFAULT_LACUNARITY),
                            RidgedBlender_new(DEFAULT_ATTENUATION, DEFAULT_PERSISTENCE)),
                <<0, 1>>) }

Parents == {"direct", "clamp", "scaled"}

\* the node an evaluator calls get on
ParentOf(parent, shared) ==
    CASE parent = "direct" -> shared
      [] parent = "clamp" -> Clamp_new(shared)
      [] parent = "scaled" -> NoiseFn_scaled(shared, DEFAULT_LACUNARITY)

\* the point at which the parent evaluates the shared node
ChildPoint(parent, point) ==
    IF parent = "scaled"
    THEN UniformScale_transform(ParentOf(parent, NoNode).transform, point)
    ELSE point

\* what the parent returns, given the value the shared node returned
ParentResult(parent, value) ==
    IF parent = "clamp" /\ ~value.panic
    THEN LET bounds == ParentOf(parent, NoNode).bounds
         IN f64_clamp(value.v, bounds[1], bounds[2])
    ELSE value

\* A layer step that advances the seed of the layer it has just read.
EvalStep_reseeding(self, ev) ==
    LET layer == self.layers[ev.i + 1]
        seed_ == layer.seed
    IN [node |-> [self EXCEPT !.layers[ev.i + 1] =
                      Base_with_seed(layer, <<seed_[1], (seed_[2] + 1) % 65536>>)],
        ev |-> [ev EXCEPT !.values = Append(@, Base_get(layer, ev.at)),
                          !.at = UniformScale_transform(self.transform, @),
                          !.i = @ + 1]]

\* One turn of the closure in Fractal::get: the layer's value at the current
\* point, then the transform for the next layer.  self is read, never written.
EvalStep(self, ev) ==
    [node |-> self,
     ev |-> [ev EXCEPT !.values = Append(@, Base_get(self.layers[ev.i + 1], ev.at)),
                       !.at = UniformScale_transform(self.transform, @),
                       !.i = @ + 1]]

Share(shared) ==
    /\ node.kind = "None"
    /\ node' = shared
    /\ twin' = [NoTwin EXCEPT !.node = shared]
    /\ given' = shared.seed
    /\ op' = [name |-> "share", n |-> Len(shared.layers), was |-> 0, panic |-> FALSE]
    /\ UNCHANGED <<debug, out, calls, evals>>

EvalStart(e, parent, point) ==
    /\ node.kind = "Fractal"
    /\ twin.node.kind # "None"
    /\ calls = <<>>
    /\ evals[e].pc = "idle"
    /\ evals' = [evals EXCEPT ![e] =
                    [Idle EXCEPT !.pc = "layers", !.parent = parent, !.point = point,
                                 !.at = ChildPoint(parent, point)]]
    /\ UNCHANGED <<debug, node, given, op, out, calls, twin>>

EvalLayer(e) ==
    /\ evals[e].pc = "layers"
    /\ evals[e].i < Len(node.layers)
    /\ LET step == EvalStep(node, evals[e])
       IN /\ node' = step.node
          /\ evals' = [evals EXCEPT ![e] = step.ev]
    /\ UNCHANGED <<debug, given, op, out, calls, twin>>

EvalFinish(e) ==
    /\ evals[e].pc = "layers"
    /\ evals[e].i = Len(node.layers)
    /\ LET values == evals[e].values
           value == IF debug /\ Len(values) = 0 THEN Panicked
                    ELSE Blender_blend(node.blender, values)
       IN evals' = [evals EXCEPT ![e] =
                       [@ EXCEPT !.pc = "done",
                                 !.res = ParentResult(evals[e].parent, value)]]
    /\ UNCHANGED <<debug, node, given, op, out, calls, twin>>

EvalReturn(e) ==
    /\ evals[e].pc = "done"
    /\ evals' = [evals EXCEPT ![e] = Idle]
    /\ UNCHANGED <<debug, node, given, op, out, calls, twin>>

NextShared ==
    \/ \E shared \in SharedNodes : Share(shared)
    \/ \E e \in Evaluators, parent \in Parents, point \in ReplayPoints :
          EvalStart(e, parent, point)
    \/ \E e \in Evaluators : EvalLayer(e)
    \/ \E e \in Evaluators : EvalFinish(e)
    \/ \E e \in Evaluators : EvalReturn(e)

SpecShared == Init /\ [][NextShared]_vars

(***************************************************************************)
(* Chains that are built twice.  Two builders make the same calls, each on *)
(* its own value: the first builder chooses its calls and owns node, the   *)
(* second makes the recorded calls in the same order and owns twin.node.   *)
(* A call is split where the code draws from its generator, so that the    *)
(* calls of the two builders interleave draw by draw and a later call of   *)
(* one runs while an earlier call of the other is still in flight.  Each   *)
(* call that draws creates its generator from a seed (`let mut seed_gen`,  *)
(* a local of the call) and drops it when it returns.  Once both builders  *)
(* have returned from the same calls, get is called on the two nodes, one  *)
(* call after another, each split at its layer loop.                       *)
(***************************************************************************)
NoCall ==
    [name |-> "none", n |-> 0, s |-> <<0, 0>>, F |-> "Perlin",
     b |-> HomogenousBlender_new(DEFAULT_PERSISTENCE)]

\* The calls the first builder chooses from.  A with_function_default of the
\* function the layers already have still draws their seeds again.
CallInputs ==
    { [NoCall EXCEPT !.name = "new", !.n = 0, !.F = "Perlin"],
      [NoCall EXCEPT !.name = "new", !.n = 1, !.F = "Perlin"],
      [NoCall EXCEPT !.name = "new", !.n = 2, !.F = "OpenSimplex"] }
    \cup {[NoCall EXCEPT !.name = "with_seed", !.s = s] :
             s \in {<<0, 1>>, Fractal_DEFAULT_SEED}}
    \cup {[NoCall EXCEPT !.name = "with_layers", !.n = n] : n \in 0..MaxLayers}
    \cup { [NoCall EXCEPT !.name = "with_function_default", !.F = "OpenSimplex"],
           [NoCall EXCEPT !.name = "with_layer_blender",
                          !.b = RidgedBlender_new(DEFAULT_ATTENUATION,
                                                  DEFAULT_PERSISTENCE)] }

\* the value the call c returns when made on self (NoNode for a constructor)
ApplyCall(self, c) ==
    CASE c.name = "new" ->
            Fractal_new(c.n, c.F, UniformScale_new(DEFAULT_LACUNARITY), c.b)
      [] c.name = "with_seed" -> with_seed(self, c.s)
      [] c.name = "with_layers" -> Fractal_with_layers(self, c.n)
      [] c.name = "with_function_default" -> Fractal_with_function_default(self, c.F)
      [] c.name = "with_layer_blender" -> Fractal_with_layer_blender(self, c.b)

\* the value the first k calls of cs build, each call run alone
RECURSIVE Replay(_, _)
Replay(cs, k) == IF k = 0 THEN NoNode ELSE ApplyCall(Replay(cs, k - 1), cs[k])

Builders == {1, 2}

\* A generator that is a static of the process: every call draws from the
\* same one, whichever builder makes it.
seed_gen_static(builder) == 1

\* The generator a call draws from: `let mut seed_gen`, its own.
seed_gen(builder) == builder

\* The call c panics on entry, before it creates a generator: assert!(layers
\* > 0) of with_layers, then debug_assert!(o.len() > 0) and o.first().unwrap()
\* where it grows a stack of no layers; debug_assert!(self.layers.len() > 0)
\* of with_function in a debug build.
CallPanics(self, c) ==
    CASE c.name = "with_layers" ->
            c.n = 0 \/ (Len(self.layers) < c.n /\ Len(self.layers) = 0)
      [] c.name = "with_function_default" -> debug /\ Len(self.layers) = 0
      [] OTHER -> FALSE

\* The seed a call creates its generator from, as a list: none when the call
\* draws nothing or panics on entry.
CallSeed(self, c) ==
    IF CallPanics(self, c) THEN <<>>
    ELSE CASE c.name = "new" -> <<Fractal_DEFAULT_SEED>>
           [] c.name = "with_seed" -> <<c.s>>
           [] c.name = "with_layers" ->
                 IF Len(self.layers) < c.n THEN <<self.seed>> ELSE <<>>
           [] c.name = "with_function_default" -> <<self.seed>>
           [] c.name = "with_layer_blender" -> <<>>

\* The call c entered on self, before its first draw: the layers it starts
\* from, the draws it throws away and the layers it has still to make; or the
\* call panicked, and the value it was made on is lost.
CallEnter(self, c) ==
    IF CallPanics(self, c) THEN [Quiet EXCEPT !.pc = "panic", !.name = c.name]
    ELSE CASE c.name = "new" ->
            [Quiet EXCEPT !.pc = "run", !.name = c.name, !.F = c.F, !.todo = c.n]
      [] c.name = "with_seed" ->
            [Quiet EXCEPT !.pc = "run", !.name = c.name, !.self = self,
                          !.todo = Len(self.layers)]
      [] c.name = "with_layers" ->
            [Quiet EXCEPT !.pc = "run", !.name = c.name, !.self = self,
                          !.layers = IF Len(self.layers) > c.n
                                     THEN SubSeq(self.layers, 1, c.n)
                                     ELSE self.layers,
                          !.skip = IF Len(self.layers) < c.n
                                   THEN Len(self.layers) ELSE 0,
                          !.todo = IF Len(self.layers) < c.n
                                   THEN c.n - Len(self.layers) ELSE 0]
      [] c.name = "with_function_default" ->
            [Quiet EXCEPT !.pc = "run", !.name = c.name, !.F = c.F, !.self = self,
                          !.todo = Len(self.layers)]
      [] c.name = "with_layer_blender" ->
            [Quiet EXCEPT !.pc = "run", !.name = c.name, !.self = self,
                          !.layers = self.layers]

\* The generator the next layer of the call is cloned from.
CallTemplate(call) ==
    CASE call.name = "new" -> Base_default(call.F)
      [] call.name = "with_seed" -> call.self.layers[Len(call.layers) + 1]
      [] call.name = "with_layers" -> call.self.layers[1]
      [] call.name = "with_function_default" -> Base_default(call.F)

\* One seed_gen.gen(): the call and the generator after it.  The value is
\* thrown away while the call skips, and seeds the next layer otherwise.
CallDraw(call, rng) ==
    LET drawn == next_u32(rng)
    IN [gen |-> drawn,
        call |-> IF call.skip > 0 THEN [call EXCEPT !.skip = @ - 1]
                 ELSE [call EXCEPT
                          !.layers = Append(@, Base_with_seed(CallTemplate(call),
                                                              drawn[4])),
                          !.todo = @ - 1]]

\* The value the call c returns, its layers made.
CallLeave(call, c) ==
    CASE c.name = "new" ->
            [kind |-> "Fractal", layers |-> call.layers,
             transform |-> UniformScale_new(DEFAULT_LACUNARITY),
             blender |-> c.b, seed |-> Fractal_DEFAULT_SEED]
      [] c.name = "with_layer_blender" -> [call.self EXCEPT !.blender = c.b]
      [] OTHER -> [call.self EXCEPT !.layers = call.layers]

\* the node a builder owns
Built(builder) == IF builder = 1 THEN node ELSE twin.node

\* what a builder has of its calls: the node it owns, or a panic
Outcome(builder) ==
    IF twin.call[builder].pc = "panic" THEN PanicNode ELSE Built(builder)

\* the number of recorded calls a builder has entered
Entered(builder) ==
    IF builder = 1 THEN Len(calls)
    ELSE twin.done + (IF twin.call[2].pc = "run" THEN 1 ELSE 0)

\* twin after a builder has entered the call c on the node it owns
Entering(builder, c) ==
    LET made == CallSeed(Built(builder), c)
    IN [twin EXCEPT
           !.call[builder] = CallEnter(Built(builder), c),
           !.gens[seed_gen(builder)] =
               IF made = <<>> THEN @ ELSE seed_from_u64(made[1]),
           !.point = <<>>, !.res = Val(Zero)]

\* the first builder enters a call of its choice; a call that panics leaves
\* the builder without a value, and its chain ends there
ReplayCall(c) ==
    /\ \A e \in Evaluators : evals[e].pc = "idle"
    /\ twin.call[1].pc = "idle"
    /\ Len(calls) < MaxCalls
    /\ IF c.name = "new" THEN node.kind = "None" ELSE node.kind = "Fractal"
    /\ calls' = Append(calls, c)
    /\ twin' = Entering(1, c)
    /\ node' = IF CallPanics(node, c) THEN NoNode ELSE node
    /\ given' = CASE c.name = "new" -> Fractal_DEFAULT_SEED
                  [] c.name = "with_seed" -> c.s
                  [] OTHER -> given
    /\ op' = [name |-> c.name, n |-> c.n, was |-> LayerCount(node),
              panic |-> CallPanics(node, c)]
    /\ out' = NoOut
    /\ UNCHANGED <<debug, evals>>

\* the second builder enters the next recorded call, with the same arguments
Rebuild ==
    /\ \A e \in Evaluators : evals[e].pc = "idle"
    /\ twin.call[2].pc = "idle"
    /\ twin.done < Len(calls)
    /\ LET c == calls[twin.done + 1]
           panics == CallPanics(twin.node, c)
       IN /\ twin' = [Entering(2, c) EXCEPT
                         !.node = IF panics THEN NoNode ELSE @,
                         !.done = IF panics THEN @ + 1 ELSE @]
          /\ op' = [name |-> "rebuild", n |-> 0, was |-> LayerCount(node),
                    panic |-> panics]
    /\ out' = NoOut
    /\ UNCHANGED <<debug, node, given, calls, evals>>

\* a call in flight draws once
ReplayDraw(builder) ==
    /\ twin.call[builder].pc = "run"
    /\ twin.call[builder].skip + twin.call[builder].todo > 0
    /\ LET step == CallDraw(twin.call[builder], twin.gens[seed_gen(builder)])
       IN twin' = [twin EXCEPT !.call[builder] = step.call,
                               !.gens[seed_gen(builder)] = step.gen]
    /\ UNCHANGED <<debug, node, given, op, out, calls, evals>>

\* a call in flight returns: its generator is dropped, the builder owns the value
ReplayReturn(builder) ==
    /\ twin.call[builder].pc = "run"
    /\ twin.call[builder].skip + twin.call[builder].todo = 0
    /\ LET value == CallLeave(twin.call[builder], calls[Entered(builder)])
       IN /\ node' = IF builder = 1 THEN value ELSE node
          /\ twin' = [twin EXCEPT
                         !.node = IF builder = 1 THEN @ ELSE value,
                         !.done = IF builder = 1 THEN @ ELSE @ + 1,
                         !.call[builder] = Quiet,
                         !.gens[seed_gen(builder)] = NoGen]
    /\ UNCHANGED <<debug, given, op, out, calls, evals>>

\* the node a get is called on: each builder calls get on the node it owns,
\* as evaluator of its own number
GetOn(e) == Built(e)

\* get is called once both builders have returned from the same calls, and
\* no other get is in flight; until the next call the gets are made at one
\* point, the point of the first of them
ReplayGet(e, point) ==
    /\ node.kind = "Fractal"
    /\ twin.done = Len(calls)
    /\ twin.call[1].pc = "idle"
    /\ \A f \in Evaluators : evals[f].pc = "idle"
    /\ out.point \in {<<>>, point}
    /\ twin.point \in {<<>>, point}
    /\ evals' = [evals EXCEPT ![e] =
                    [Idle EXCEPT !.pc = "layers", !.point = point, !.at = point]]
    /\ UNCHANGED <<debug, node, given, op, out, calls, twin>>

\* one turn of the layer loop; what the turn leaves of the node is kept
ReplayGetLayer(e) ==
    /\ calls # <<>>
    /\ evals[e].pc = "layers"
    /\ evals[e].i < Len(GetOn(e).layers)
    /\ LET step == EvalStep(GetOn(e), evals[e])
       IN /\ node' = IF e = 1 THEN step.node ELSE node
          /\ twin' = IF e = 1 THEN twin ELSE [twin EXCEPT !.node = step.node]
          /\ evals' = [evals EXCEPT ![e] = step.ev]
    /\ UNCHANGED <<debug, given, op, out, calls>>

\* debug_assert!(values.len() > 0), then the blend
ReplayGetBlend(e) ==
    /\ calls # <<>>
    /\ evals[e].pc = "layers"
    /\ evals[e].i = Len(GetOn(e).layers)
    /\ LET values == evals[e].values
           value == IF debug /\ Len(values) = 0 THEN Panicked
                    ELSE Blender_blend(GetOn(e).blender, values)
       IN evals' = [evals EXCEPT ![e] = [@ EXCEPT !.pc = "done", !.res = value]]
    /\ UNCHANGED <<debug, node, given, op, out, calls, twin>>

\* get returns: the point and the value are kept as the last get of that node
ReplayGetReturn(e) ==
    /\ calls # <<>>
    /\ evals[e].pc = "done"
    /\ evals' = [evals EXCEPT ![e] = Idle]
    /\ IF e = 1
       THEN /\ out' = [point |-> evals[e].point, res |-> evals[e].res]
            /\ op' = [name |-> "get", n |-> 0, was |-> LayerCount(node),
                      panic |-> evals[e].res.panic]
            /\ twin' = twin
       ELSE /\ twin' = [twin EXCEPT !.point = evals[e].point, !.res = evals[e].res]
            /\ UNCHANGED <<op, out>>
    /\ UNCHANGED <<debug, node, given, calls>>

NextReplay ==
    \/ \E c \in CallInputs : ReplayCall(c)
    \/ Rebuild
    \/ \E builder \in Builders : ReplayDraw(builder)
    \/ \E builder \in Builders : ReplayReturn(builder)
    \/ \E e \in Builders, point \in ReplayPoints : ReplayGet(e, point)
    \/ \E e \in Builders : ReplayGetLayer(e)
    \/ \E e \in Builders : ReplayGetBlend(e)
    \/ \E e \in Builders : ReplayGetReturn(e)

SpecReplay == Init /\ [][NextReplay]_vars

(***************************************************************************)
(* Blend and Exponent chains.                                              *)
(***************************************************************************)
BlendSource1Inputs == {Constant_new(R(-2, 1)), Checkerboard_new(0)}

BlendSource2Inputs == {Constant_new(R(5, 1)), Constant_new(R(1, 2))}

BlendControlInputs ==
    { Constant_new(FNeg(One)), Constant_new(Zero), Constant_new(R(1, 4)),
      Constant_new(One), Constant_new(R(2, 1)), Checkerboard_new(0) }

SelectorPoints == {<<One, Zero>>, <<One, One>>, <<R(1, 2), R(3, 2)>>, <<One, R(5, 2), R(3, 1)>>}

BlendNew(source1, source2, control) ==
    /\ node.kind = "None"
    /\ Configure(Blend_new(source1, source2, control), "new", 0)
    /\ UNCHANGED given

BlendGet(point) ==
    /\ node.kind = "Blend"
    /\ Evaluate(point)

NextBlendNode ==
    \/ \E s1 \in BlendSource1Inputs, s2 \in BlendSource2Inputs, c \in BlendControlInputs :
           BlendNew(s1, s2, c)
    \/ \E point \in SelectorPoints : BlendGet(point)

SpecBlendNode == Init /\ [][NextBlendNode]_vars

ExponentSourceInputs ==
    { Constant_new(R(-3, 1)), Constant_new(R(-2, 1)), Constant_new(FNeg(One)),
      Constant_new(R(-1, 2)), Constant_new(Zero), Constant_new(R(1, 2)),
      Constant_new(One), Constant_new(R(3, 1)), Checkerboard_new(0) }

\* integral exponents
ExponentInputs == {Zero, One, R(2, 1), R(3, 1)}

ExponentNew(source) ==
    /\ node.kind = "None"
    /\ Configure(Exponent_new(source), "new", 0)
    /\ UNCHANGED given

ExponentWithExponent(exponent) ==
    /\ node.kind = "Exponent"
    /\ Configure(Exponent_with_exponent(node, exponent), "with_exponent", 0)
    /\ UNCHANGED given

ExponentGet(point) ==
    /\ node.kind = "Exponent"
    /\ Evaluate(point)

NextExponent ==
    \/ \E source \in ExponentSourceInputs : ExponentNew(source)
    \/ \E exponent \in ExponentInputs : ExponentWithExponent(exponent)
    \/ \E point \in SelectorPoints : ExponentGet(point)

SpecExponent == Init /\ [][NextExponent]_vars

(***************************************************************************)
(* Every chain.                                                            *)
(***************************************************************************)
Next ==
    NextFractal \/ NextTurbulence \/ NextClamp \/ NextSelect \/ NextCombiner
    \/ NextGenerator \/ NextScaleBias \/ NextBlend \/ NextReplay \/ NextShared
    \/ NextBlendNode \/ NextExponent

Spec == Init /\ [][Next]_vars

(***************************************************************************)
(* Properties of Fractal chains (SpecFractal).                             *)
(***************************************************************************)
Min(a, b) == IF a < b THEN a ELSE b

\* C1: the seed of layer k is the k-th value of the stream of the seed most
\* recently given to the fractal (DEFAULT_SEED before any with_seed), whatever
\* the order of the new / with_seed / with_layers / with_function calls.
C1_LayerSeedsFollowGivenSeed ==
    node.kind = "Fractal" => LayerSeeds(node) = SeedStream(given, 0, Len(node.layers))

\* C2: with_layers(n), n >= 1, on a fractal of k layers returns n layers whose
\* first min(k, n) are the old ones, unchanged and in order; n = k returns the
\* stack unchanged.
C2_WithLayersFrame ==
    [][(op'.name = "with_layers" /\ ~op'.panic /\ op'.n >= 1) =>
         LET k == Len(node.layers)
             n == op'.n
             m == Min(k, n)
         IN /\ Len(node'.layers) = n
            /\ SubSeq(node'.layers, 1, m) = SubSeq(node.layers, 1, m)
            /\ (n = k => node' = node)]_vars

\* A fractal reseeded away from DEFAULT_SEED has just been grown by with_layers.
C2_GrownAfterReseed ==
    /\ node.kind = "Fractal"
    /\ op.name = "with_layers" /\ ~op.panic
    /\ 1 <= op.was /\ op.was < op.n /\ Len(node.layers) = op.n
    /\ given # Fractal_DEFAULT_SEED
    /\ node.layers[1].seed = SeedStream(given, 0, 1)[1]

\* C3: with_seed(s).seed() = s: the getter returns the seed most recently set.
C3_SeedReturnsGivenSeed ==
    (op.name = "with_seed" /\ ~op.panic) => seed(node) = given

\* C4: a request for zero layers aborts: Fractal::new(0, ..), with_layers(0)
\* and with_roughness(0) return no node.
C4_ZeroLayersAbort ==
    (/\ op.n = 0
     /\ \/ op.name = "new" /\ node.kind \in {"Fractal", "None"}
        \/ op.name \in {"with_layers", "with_roughness"})
    => op.panic

\* C5: every fractal a chain returns has at least one layer, get never hands
\* the blender an empty list, and with_layers(n) returns exactly n layers.
C5_AtLeastOneLayer ==
    /\ node.kind = "Fractal" => Len(node.layers) >= 1
    /\ (node.kind = "Fractal" /\ op.name = "get") =>
           Len(LayerValues(node, 1, out.point)) >= 1
    /\ (op.name = "with_layers" /\ ~op.panic) => Len(node.layers) = op.n

(***************************************************************************)
(* Properties of Turbulence chains (SpecTurbulence).                       *)
(***************************************************************************)
\* C6: with power 0 a Turbulence node returns what its source returns at the
\* same point, whatever its seed, frequency and roughness.
C6_ZeroPowerIsSource ==
    (op.name = "get" /\ node.kind = "Turbulence" /\ node.power = Zero) =>
        out.res = get(node.source, out.point)

\* A get at power 0 on a node whose seed, frequency and roughness were all
\* changed, at a point where a distortion is not zero and where power 1 would
\* have returned something else.
C6_ZeroPowerEvaluated ==
    /\ op.name = "get" /\ node.kind = "Turbulence" /\ node.power = Zero
    /\ node.seed # Turbulence_DEFAULT_SEED
    /\ node.frequency # Turbulence_DEFAULT_FREQUENCY
    /\ node.roughness # Turbulence_DEFAULT_ROUGHNESS
    /\ \E i \in DOMAIN out.point : Distortion(node, out.point, i).v # Zero
    /\ get(Turbulence_with_power(node, One), out.point) # out.res

\* The layer seeds of distorter i.
DistorterSeeds(self, i) == LayerSeeds(self.distorters[i].source)

\* C7: the four distorters each have their own seed: no two carry the same list
\* of layer seeds, after new and after any with_ call.
C7_DistortersSeededApart ==
    node.kind = "Turbulence" =>
        \A i, j \in 1..4 : i # j => DistorterSeeds(node, i) # DistorterSeeds(node, j)

(***************************************************************************)
(* Properties of Clamp chains (SpecClamp).                                 *)
(***************************************************************************)
\* C8: a Clamp with low > high is accepted and its get returns a value at every
\* point where its source does: the inverted range never makes get fault.
C8_InvertedBoundsEvaluate ==
    (/\ op.name = "get" /\ node.kind = "Clamp"
     /\ FGt(node.bounds[1], node.bounds[2])
     /\ ~get(node.source, out.point).panic)
    => ~out.res.panic

\* C9: for low <= high, get returns the source's value when it is in
\* [low, high], low when it is below and high when it is above, so the result
\* is inside [low, high]; Clamp(Constant(5)) with the default bounds returns 1;
\* and a Clamp over a Clamp with the same bounds returns what the inner one
\* returns.
C9_ClampSemantics ==
    LET lo == node.bounds[1]
        hi == node.bounds[2]
        value == get(node.source, out.point)
    IN (op.name = "get" /\ node.kind = "Clamp" /\ FLe(lo, hi) /\ ~value.panic) =>
         /\ ~out.res.panic
         /\ out.res.v = IF FLt(value.v, lo) THEN lo
                        ELSE IF FGt(value.v, hi) THEN hi
                        ELSE value.v
         /\ FLe(lo, out.res.v) /\ FLe(out.res.v, hi)
         /\ node = Clamp_new(Constant_new(R(5, 1))) => out.res = Val(One)
         /\ (node.source.kind = "Clamp" /\ node.source.bounds = node.bounds) =>
                out.res = value
         /\ get(Clamp_with_bounds(Clamp_new(node), lo, hi), out.point) = out.res

\* A get on Clamp(Clamp(Constant(5))), both with the default bounds, that
\* returned the upper bound.
C9_NestedClampEvaluated ==
    /\ op.name = "get" /\ node.kind = "Clamp"
    /\ node = Clamp_new(Clamp_new(Constant_new(R(5, 1))))
    /\ out.res = Val(One)
    /\ get(node.source.source, out.point) = Val(R(5, 1))

(***************************************************************************)
(* Properties of Select chains (SpecSelect).                               *)
(***************************************************************************)
\* The source a hard switch picks: source1 outside [low, high], else source2.
HardSwitch(self, point) ==
    LET c == get(self.control, point).v
    IN IF FLt(c, self.bounds[1]) \/ FGt(c, self.bounds[2])
       THEN get(self.source1, point)
       ELSE get(self.source2, point)

\* C10 (as stated): with falloff 0, get returns source1 when the control value
\* is below low or above high and source2 otherwise, and a control value equal
\* to low or to high selects source2.
C10_HardSwitchAsStated ==
    LET c == get(node.control, out.point)
    IN (op.name = "get" /\ node.kind = "Select" /\ node.falloff = Zero /\ ~c.panic) =>
         /\ out.res = HardSwitch(node, out.point)
         /\ (c.v = node.bounds[1] \/ c.v = node.bounds[2]) =>
                out.res = get(node.source2, out.point)

\* C10: with falloff 0, get returns source1 when the control value is below low
\* or above high and source2 otherwise; for low <= high a control value equal
\* to low or to high selects source2, and for low > high every control value
\* selects source1.
C10_HardSwitch ==
    LET c == get(node.control, out.point)
        lo == node.bounds[1]
        hi == node.bounds[2]
    IN (op.name = "get" /\ node.kind = "Select" /\ node.falloff = Zero /\ ~c.panic) =>
         /\ out.res = HardSwitch(node, out.point)
         /\ (FLe(lo, hi) /\ (c.v = lo \/ c.v = hi)) =>
                out.res = get(node.source2, out.point)
         /\ FGt(lo, hi) => out.res = get(node.source1, out.point)

\* A hard-switch get whose control value is exactly a bound of a proper range
\* and whose two sources differ at the point.
C10_BoundaryEvaluated ==
    LET c == get(node.control, out.point)
    IN /\ op.name = "get" /\ node.kind = "Select" /\ node.falloff = Zero
       /\ ~c.panic
       /\ FLt(node.bounds[1], node.bounds[2])
       /\ c.v = node.bounds[2]
       /\ node.bounds # <<Zero, One>>
       /\ get(node.source1, out.point) # get(node.source2, out.point)
       /\ out.res = get(node.source2, out.point)

(***************************************************************************)
(* Properties of combiner chains (SpecCombiner).                           *)
(***************************************************************************)
\* The operator each combiner type is named for.
OwnOperator(name) ==
    CASE name = "Add" -> "add"
      [] name = "Multiply" -> "mul"
      [] name = "Power" -> "powf"
      [] name = "Min" -> "min"
      [] name = "Max" -> "max"

\* C11: each of the five combiner types is evaluable and returns its own
\* operator applied to its two children evaluated at the same point.
C11_CombinersApplyOwnOperator ==
    LET a == get(node.source1, out.point)
        b == get(node.source2, out.point)
    IN (op.name = "get" /\ node.kind \in Combiners /\ ~a.panic /\ ~b.panic) =>
         /\ ~out.res.panic
         /\ out.res.v = combine(OwnOperator(node.kind), a.v, b.v)

(***************************************************************************)
(* Properties of generator chains (SpecGenerator).                         *)
(***************************************************************************)
\* The block-size exponent s of a Checkerboard: its size field is 2^s.
SizeExponent(self) == CHOOSE s \in 0..(MaxSize + 1) : Pow2[s + 1] = self.size

\* The coordinates of the point are non-negative integers.
OnLattice(point) == \A i \in DOMAIN point : point[i][2] = 1 /\ point[i][1] >= 0

\* The coordinates of a lattice point that have bit s set.
WithBit(point, s) == {i \in DOMAIN point : (point[i][1] \div Pow2[s + 1]) % 2 = 1}

\* C12: at a point of non-negative integer coordinates a Checkerboard of
\* exponent s returns -1 when an odd number of coordinates have bit s set and 1
\* when an even number do; with s = 0: [0,0] -> 1, [1,0] -> -1, [1,1] -> 1.
C12_CheckerboardParity ==
    (op.name = "get" /\ node.kind = "Checkerboard" /\ OnLattice(out.point)) =>
        LET odd == Cardinality(WithBit(out.point, SizeExponent(node))) % 2 = 1
        IN /\ out.res = IF odd THEN Val(R(-1, 1)) ELSE Val(One)
           /\ (SizeExponent(node) = 0 /\ out.point = <<Zero, Zero>>) => out.res = Val(One)
           /\ (SizeExponent(node) = 0 /\ out.point = <<One, Zero>>) => out.res = Val(R(-1, 1))
           /\ (SizeExponent(node) = 0 /\ out.point = <<One, One>>) => out.res = Val(One)

\* A get at [1, 1] on a Checkerboard of exponent 0: both bits set, result 1.
C12_TwoBitsCancel ==
    /\ op.name = "get" /\ node.kind = "Checkerboard"
    /\ SizeExponent(node) = 0
    /\ out.point = <<One, One>>
    /\ out.res = Val(One)

\* C14: Constant::new(c).get(p) = c at every point of every dimension.
C14_ConstantReturnsValue ==
    (op.name = "get" /\ node.kind = "Constant") => out.res = Val(node.value)

\* A get on a Constant other than 0 at a point of four dimensions whose first
\* coordinate is not 1.
C14_ConstantEvaluated ==
    /\ op.name = "get" /\ node.kind = "Constant"
    /\ node.value = R(5, 1)
    /\ Len(out.point) = 4 /\ out.point[1] # One
    /\ out.res = Val(R(5, 1))

(***************************************************************************)
(* Properties of ScaleBias chains (SpecScaleBias).                         *)
(***************************************************************************)
\* C13: get returns source * scale + bias, whichever of with_scale and
\* with_bias was called first; with the defaults it returns the source's value;
\* ScaleBias(Constant(1)).with_scale(2).with_bias(1/2) returns 5/2.
C13_ScaleThenBias ==
    LET value == get(node.source, out.point)
    IN (op.name = "get" /\ node.kind = "ScaleBias" /\ ~value.panic) =>
         /\ out.res = Val(FAdd(FMul(value.v, node.scale), node.bias))
         /\ (node.scale = One /\ node.bias = Zero) => out.res = value
         /\ \A a \in ScaleInputs, b \in BiasInputs :
                LET ab == ScaleBias_with_bias(ScaleBias_with_scale(node, a), b)
                    ba == ScaleBias_with_scale(ScaleBias_with_bias(node, b), a)
                IN /\ ab = ba
                   /\ get(ab, out.point) = Val(FAdd(FMul(value.v, a), b))
         /\ node = ScaleBias_with_bias(
                       ScaleBias_with_scale(ScaleBias_new(Constant_new(One)), R(2, 1)),
                       R(1, 2))
              => out.res = Val(R(5, 2))

\* A get on ScaleBias(Constant(1)) configured with scale 2 and bias 1/2.
C13_ScaledAndBiased ==
    /\ op.name = "get" /\ node.kind = "ScaleBias"
    /\ node.source = Constant_new(One)
    /\ node.scale = R(2, 1) /\ node.bias = R(1, 2)
    /\ out.res = Val(R(5, 2))

(***************************************************************************)
(* Properties of the blenders (SpecBlend).                                 *)
(***************************************************************************)
\* sum over the layers from index i on of values[i] * persistence^(i - 1),
\* the first layer having index 1 and weight 1
RECURSIVE DecayingSum(_, _, _)
DecayingSum(values, persistence, i) ==
    IF i > Len(values) THEN Zero
    ELSE FAdd(FMul(values[i], FPowNat(persistence, i - 1)),
              DecayingSum(values, persistence, i + 1))

\* C17: HomogenousBlender.blend(values) is the sum of values[i] * persistence^i
\* over the layers i = 0, 1, ..: layer 0 counts once with weight 1, and a list
\* of one layer blends to that layer's value.
C17_HomogenousDecayingSum ==
    (op.name = "blend" /\ node.kind = "Homogenous" /\ Len(out.point) >= 1) =>
        /\ out.res = Val(DecayingSum(out.point, node.persistence, 1))
        /\ Len(out.point) = 1 => out.res = Val(out.point[1])

\* The ridged accumulation the claim describes, from layer i on: the signal is
\* (1 - |value|)^2 times the running weight, it is added with weight
\* persistence^(i - 1), and the next weight is signal / attenuation clamped to
\* [0, 1].
RECURSIVE RidgedSum(_, _, _, _)
RidgedSum(self, values, i, weight) ==
    IF i > Len(values) THEN Zero
    ELSE LET folded == FSub(One, FAbs(values[i]))
             signal == FMul(FMul(folded, folded), weight)
         IN FAdd(FMul(signal, FPowNat(self.persistence, i - 1)),
                 RidgedSum(self, values, i + 1,
                           f64_clamp(FDiv(signal, self.attenuation), Zero, One).v))

\* C18: RidgedBlender.blend accumulates only folded signals: the result is the
\* sum of signal_i * persistence^i, the weight of layer 0 being 1; no unfolded
\* layer value is part of the result.
C18_RidgedFoldedOnly ==
    (op.name = "blend" /\ node.kind = "Ridged" /\ Len(out.point) >= 1) =>
        out.res = Val(RidgedSum(node, out.point, 1, One))

\* The heterogeneous accumulation the claim describes, from layer i >= 2 on
\* (index 1 is layer 0): each layer adds value * persistence^(i - 1) * result.
RECURSIVE HeterogenousSum(_, _, _, _)
HeterogenousSum(self, values, i, result) ==
    IF i > Len(values) THEN result
    ELSE HeterogenousSum(self, values, i + 1,
             FAdd(result,
                  FMul(FMul(values[i], FPowNat(self.persistence, i - 1)), result)))

\* C19: HeterogenousBlender.blend starts from values[0] and counts each layer
\* once: layer i >= 1 adds values[i] * persistence^i * (the result so far).
C19_HeterogenousEachLayerOnce ==
    (op.name = "blend" /\ node.kind = "Heterogenous" /\ Len(out.point) >= 1) =>
        out.res = Val(HeterogenousSum(node, out.point, 2, out.point[1]))

(***************************************************************************)
(* Properties of Fractal evaluation (SpecFractal).                         *)
(***************************************************************************)
\* The transform applied k times to the point.
RECURSIVE TransformTimes(_, _, _)
TransformTimes(transform, point, k) ==
    IF k = 0 THEN point
    ELSE UniformScale_transform(transform, TransformTimes(transform, point, k - 1))

\* The value of each layer at the point the transform takes it to: layer i
\* (the first being layer 0) at the transform applied i times.
ValuePerLayer(self, point) ==
    [i \in 1..Len(self.layers) |->
        Base_get(self.layers[i], TransformTimes(self.transform, point, i - 1))]

\* C20: Fractal.get evaluates layer i at the transform applied i times to the
\* point and hands the blender one value per layer, in layer order.
C20_LayerAtIteratedTransform ==
    (op.name = "get" /\ node.kind = "Fractal" /\ Len(node.layers) >= 1) =>
        /\ LayerValues(node, 1, out.point) = ValuePerLayer(node, out.point)
        /\ Len(LayerValues(node, 1, out.point)) = Len(node.layers)
        /\ out.res = Blender_blend(node.blender, ValuePerLayer(node, out.point))

\* A get on a fractal of three or more layers with a lacunarity of its own, at a
\* point where the transformed layers' values are not those at the point itself.
C20_DeepLayersEvaluated ==
    /\ op.name = "get" /\ node.kind = "Fractal" /\ ~out.res.panic
    /\ Len(node.layers) >= 3
    /\ node.transform # UniformScale_new(DEFAULT_LACUNARITY)
    /\ \E i \in 2..Len(node.layers) :
           ValuePerLayer(node, out.point)[i] # Base_get(node.layers[i], out.point)
    /\ out.res # Blender_blend(node.blender,
                     [i \in 1..Len(node.layers) |-> Base_get(node.layers[i], out.point)])

(***************************************************************************)
(* Properties of chains built twice (SpecReplay).                          *)
(***************************************************************************)
\* C15: evaluation is deterministic.  However the calls of the two builders
\* interleave, each builder's node is the value its calls return when they
\* are run alone (a panic where they panic), so two nodes built by the same
\* calls with the same arguments are the same node; and a get that has
\* finished has returned what the last
\* get on the same node returned at that point and what the last get on the
\* other node returned at that point, which is the value of get run alone.
C15_Deterministic ==
    /\ (twin.call[1].pc # "run" /\ calls # <<>>) =>
           Outcome(1) = Replay(calls, Len(calls))
    /\ (twin.call[2].pc # "run" /\ twin.done > 0) =>
           Outcome(2) = Replay(calls, twin.done)
    /\ (twin.call[1].pc # "run" /\ twin.call[2].pc # "run" /\ calls # <<>>
          /\ twin.done = Len(calls)) =>
           (Outcome(2) = Outcome(1) /\ twin.node = node)
    /\ \A e \in Builders :
          (calls # <<>> /\ evals[e].pc = "done") =>
             /\ out.point = evals[e].point => evals[e].res = out.res
             /\ twin.point = evals[e].point => evals[e].res = twin.res
             /\ evals[e].res = get(GetOn(e), evals[e].point)

\* A second get on the first node has finished at the point of an earlier
\* get on it and of a get on the second node, on fractals of two or more
\* layers that three calls built, one of them a with_seed, with a value
\* other than 0.
C15_BuiltTwiceEvaluated ==
    /\ evals[1].pc = "done"
    /\ out.point = evals[1].point
    /\ twin.point = evals[1].point
    /\ Len(calls) = 3
    /\ \E k \in 1..Len(calls) : calls[k].name = "with_seed"
    /\ Len(node.layers) >= 2
    /\ ~evals[1].res.panic /\ evals[1].res.v # Zero

(***************************************************************************)
(* Properties of shared evaluation (SpecShared).                           *)
(***************************************************************************)
\* C16: evaluation never writes node state: under every interleaving of the
\* get calls of several evaluators on one shared node, made directly or
\* through a parent holding a reference to it, the node stays what it was
\* when it was shared, the layer values an evaluator has collected are those
\* it would collect alone, and every finished call has returned what the
\* same call returns when run alone.
C16_SharedNodeUnwritten ==
    /\ (twin.node.kind # "None" /\ calls = <<>>) => node = twin.node
    /\ \A e \in Evaluators :
          LET ev == evals[e]
          IN /\ ev.pc = "layers" =>
                   ev.values = SubSeq(LayerValues(twin.node, 1,
                                                  ChildPoint(ev.parent, ev.point)),
                                      1, ev.i)
             /\ ev.pc = "done" =>
                   ev.res = get(ParentOf(ev.parent, twin.node), ev.point)

\* One evaluator is between two layers of the shared node, called through
\* the clamping parent, while another has finished a call through the
\* scaling parent at a different point with a value other than 0.
C16_InterleavedEvaluators ==
    \E e1, e2 \in Evaluators :
        /\ e1 # e2
        /\ evals[e1].pc = "layers" /\ evals[e1].parent = "clamp"
        /\ evals[e1].i > 0 /\ evals[e1].i < Len(node.layers)
        /\ evals[e2].pc = "done" /\ evals[e2].parent = "scaled"
        /\ evals[e2].point # evals[e1].point
        /\ ~evals[e2].res.panic /\ evals[e2].res.v # Zero

\* The four control values at which get changes arm when falloff > 0, in the
\* order get tests them.
SelectThresholds(self) ==
    << FSub(self.bounds[1], self.falloff), FAdd(self.bounds[1], self.falloff),
       FSub(self.bounds[2], self.falloff), FAdd(self.bounds[2], self.falloff) >>

\* What arm k of the match in get returns for the control value c.
SelectArm(self, point, k, c) ==
    LET t == SelectThresholds(self)
        s1 == get(self.source1, point)
        s2 == get(self.source2, point)
    IN CASE k = 2 -> SelectCurve(s1, s2, c, t[1], t[2])
         [] k = 3 -> s2
         [] k = 4 -> SelectCurve(s2, s1, c, t[3], t[4])
         [] OTHER -> s1

\* The arm get takes for control values just below c: the first whose
\* threshold is at or above c.
RECURSIVE SelectArmBelow(_, _, _)
SelectArmBelow(self, c, k) ==
    IF k > 4 THEN 5
    ELSE IF FLe(c, SelectThresholds(self)[k]) THEN k
    ELSE SelectArmBelow(self, c, k + 1)

\* C21: with falloff > 0 the output of get is continuous in the control
\* value for every bounds and falloff: below low - falloff and at or above
\* high + falloff it is source1, from low + falloff up to high - falloff it is
\* source2, and at every control value, the four boundaries included, the
\* output equals what the arm taken just below that value gives there.
C21_ContinuousInControl ==
    LET c == get(node.control, out.point)
        t == SelectThresholds(node)
    IN (op.name = "get" /\ node.kind = "Select" /\ FGt(node.falloff, Zero)
          /\ ~c.panic /\ ~out.res.panic) =>
         /\ (FLt(c.v, t[1]) \/ FLe(t[4], c.v)) => out.res = get(node.source1, out.point)
         /\ (FLe(t[2], c.v) /\ FLt(c.v, t[3])) => out.res = get(node.source2, out.point)
         /\ out.res = SelectArm(node, out.point, SelectArmBelow(node, c.v, 1), c.v)

\* The same, for a falloff of at most half the width of the selection range.
C21_NarrowFalloffContinuous ==
    LET c == get(node.control, out.point)
        t == SelectThresholds(node)
    IN (op.name = "get" /\ node.kind = "Select" /\ FGt(node.falloff, Zero)
          /\ ~c.panic /\ ~out.res.panic /\ FLe(t[2], t[3])) =>
         /\ (FLt(c.v, t[1]) \/ FLe(t[4], c.v)) => out.res = get(node.source1, out.point)
         /\ (FLe(t[2], c.v) /\ FLt(c.v, t[3])) => out.res = get(node.source2, out.point)
         /\ out.res = SelectArm(node, out.point, SelectArmBelow(node, c.v, 1), c.v)

(***************************************************************************)
(* Further properties of Turbulence chains (SpecTurbulence).               *)
(***************************************************************************)
\* The number of layers of distorter i.
DistorterLayers(self, i) == Len(self.distorters[i].source.layers)

\* C22: in every Turbulence reachable by new and the with_ calls, roughness
\* equals the number of layers of each of the four distorters.
C22_RoughnessIsLayerCount ==
    node.kind = "Turbulence" =>
        \A i \in 1..4 : DistorterLayers(node, i) = node.roughness

\* The same, once with_roughness has been called.
C22_AfterWithRoughness ==
    [][(node'.kind = "Turbulence" /\ (op'.name = "with_roughness" \/
            (node.kind = "Turbulence" /\
             \A i \in 1..4 : DistorterLayers(node, i) = node.roughness))) =>
         \A i \in 1..4 : DistorterLayers(node', i) = node'.roughness]_vars

\* The uniform scale of distorter i.
DistorterScale(self, i) == self.distorters[i].transform.scale

\* C27: in every Turbulence reachable by new and the with_ calls, the scale of
\* each of the four distorters equals the frequency field, and with_roughness,
\* with_seed and with_power leave the frequency and the four scales as they
\* were.
C27_ScaleIsFrequency ==
    [][/\ node'.kind = "Turbulence" =>
            \A i \in 1..4 : DistorterScale(node', i) = node'.frequency
       /\ (node'.kind = "Turbulence"
             /\ op'.name \in {"with_roughness", "with_seed", "with_power"}) =>
            /\ node'.frequency = node.frequency
            /\ \A i \in 1..4 : DistorterScale(node', i) = DistorterScale(node, i)]_vars

\* with_power has just returned a node whose frequency, roughness and seed
\* were all changed before and whose distorters still carry the frequency.
C27_FrequencyKept ==
    /\ node.kind = "Turbulence" /\ op.name = "with_power"
    /\ node.frequency # Turbulence_DEFAULT_FREQUENCY
    /\ node.roughness # Turbulence_DEFAULT_ROUGHNESS
    /\ node.seed # Turbulence_DEFAULT_SEED
    /\ \A i \in 1..4 : DistorterScale(node, i) = node.frequency

(***************************************************************************)
(* Further properties of generator chains (SpecGenerator).                 *)
(***************************************************************************)
\* C25: Checkerboard.get is total: at every point, points with negative
\* coordinates included, it returns 1 or -1 and never faults.
C25_CheckerboardTotal ==
    (op.name = "get" /\ node.kind = "Checkerboard") =>
        /\ ~out.res.panic
        /\ out.res \in {Val(One), Val(R(-1, 1))}

\* The same at the points whose coordinates are all above -1.
C25_TotalAboveMinusOne ==
    (op.name = "get" /\ node.kind = "Checkerboard"
       /\ \A i \in DOMAIN out.point : FGt(out.point[i], R(-1, 1))) =>
        /\ ~out.res.panic
        /\ out.res \in {Val(One), Val(R(-1, 1))}

(***************************************************************************)
(* Properties of Blend chains (SpecBlendNode).                             *)
(***************************************************************************)
\* C23: Blend.get(p) = s1 + c * (s2 - s1) with s1, s2 and c the values of
\* source1, source2 and control at p; c is used as it is: c = 0 gives s1,
\* c = 1 gives s2, and c outside [0, 1] extrapolates beyond s1 or s2.
C23_LinearInControl ==
    LET s1 == get(node.source1, out.point).v
        s2 == get(node.source2, out.point).v
        c == get(node.control, out.point).v
    IN (op.name = "get" /\ node.kind = "Blend" /\ ~out.res.panic) =>
         /\ out.res = Val(FAdd(s1, FMul(c, FSub(s2, s1))))
         /\ c = Zero => out.res = Val(s1)
         /\ c = One => out.res = Val(s2)
         /\ (FGt(c, One) /\ FLt(s1, s2)) => FGt(out.res.v, s2)
         /\ (FLt(c, Zero) /\ FLt(s1, s2)) => FLt(out.res.v, s1)

\* A get with a control value above 1 from a source that varies with the
\* point has returned a value beyond source2.
C23_Extrapolated ==
    /\ op.name = "get" /\ node.kind = "Blend" /\ ~out.res.panic
    /\ node.source1.kind = "Checkerboard"
    /\ FGt(get(node.control, out.point).v, One)
    /\ FGt(out.res.v, get(node.source2, out.point).v)

(***************************************************************************)
(* Properties of Exponent chains (SpecExponent).                           *)
(***************************************************************************)
\* C24 (as stated): Exponent.get(p) = 2 * ((v + 1) / 2) ^ exponent - 1 with v
\* the source value, and with exponent 1 the node returns v for every v,
\* values outside [-1, 1] included.
C24_ExponentAsStated ==
    LET v == get(node.source, out.point).v
    IN (op.name = "get" /\ node.kind = "Exponent" /\ ~out.res.panic) =>
         /\ out.res = Val(FSub(FMul(R(2, 1),
                              f64_powf(FDiv(FAdd(v, One), R(2, 1)), node.exponent)), One))
         /\ node.exponent = One => out.res = Val(v)

\* C24: Exponent.get(p) = 2 * |(v + 1) / 2| ^ exponent - 1 with v the source
\* value; for v >= -1 this is 2 * ((v + 1) / 2) ^ exponent - 1, and with
\* exponent 1 the node returns v for every v >= -1, values above 1 included,
\* and -v - 2 for v < -1.
C24_ExponentOfMagnitude ==
    LET v == get(node.source, out.point).v
        half == FDiv(FAdd(v, One), R(2, 1))
    IN (op.name = "get" /\ node.kind = "Exponent" /\ ~out.res.panic) =>
         /\ out.res = Val(FSub(FMul(R(2, 1), f64_powf(FAbs(half), node.exponent)), One))
         /\ FLe(R(-1, 1), v) =>
                out.res = Val(FSub(FMul(R(2, 1), f64_powf(half, node.exponent)), One))
         /\ (node.exponent = One /\ FLe(R(-1, 1), v)) => out.res = Val(v)
         /\ (node.exponent = One /\ FLt(v, R(-1, 1))) =>
                out.res = Val(FSub(FNeg(v), R(2, 1)))

\* A get with exponent 1 on a source whose value at the point is
\* below -1: the result is not the source value.
C24_BelowRangeEvaluated ==
    /\ op.name = "get" /\ node.kind = "Exponent" /\ ~out.res.panic
    /\ node.exponent = One
    /\ FLt(get(node.source, out.point).v, R(-1, 1))
    /\ out.res # get(node.source, out.point)

(***************************************************************************)
(* Independence of the history of calls (SpecFractal, SpecTurbulence).     *)
(***************************************************************************)
\* What can be observed of a seeded composite without evaluating it.
Configuration(self) ==
    IF self.kind = "Fractal"
    THEN <<seed(self), Len(self.layers), self.layers[1].kind, self.transform, self.blender>>
    ELSE <<seed(self), self.source, self.frequency, self.power, self.roughness>>

\* Composites built by other, short sequences of calls from the parts of self.
BuiltOtherwise(self) ==
    IF self.kind = "Fractal"
    THEN LET fresh == Fractal_new(Len(self.layers), self.layers[1].kind,
                                  self.transform, self.blender)
         IN {fresh} \cup {with_seed(fresh, s) : s \in SeedInputs}
    ELSE LET fresh == Turbulence_with_power(
                          Turbulence_with_frequency(Turbulence_new(self.source),
                                                    self.frequency), self.power)
             rough == IF self.roughness >= 1
                      THEN {Turbulence_with_roughness(fresh, self.roughness)}
                      ELSE {}
         IN {fresh} \cup rough \cup {with_seed(t, self.seed) : t \in {fresh} \cup rough}

\* C26: the output of a seeded composite depends on its configuration only:
\* a Fractal or Turbulence returns, at every point, what any composite of the
\* same configuration built by another sequence of calls returns.
C26_HistoryIndependent ==
    ((node.kind = "Fractal" /\ Len(node.layers) >= 1) \/ node.kind = "Turbulence") =>
        \A other \in BuiltOtherwise(node) :
            Configuration(other) = Configuration(node) =>
                \A point \in TurbulencePoints : get(other, point) = get(node, point)

====
